---- MODULE Spec2Model ----
(***************************************************************************)
(* Digital Visual Computer: the stack VM (dvc_core/vm.py), its hash-chained *)
(* trace (dvc_core/trace_models.py, dvc_core/hash_chain.py) and the trace   *)
(* verifier (dvc_core/verifier.py).                                         *)
(*                                                                          *)
(* Python values are modelled as follows.                                   *)
(*   - a str is a sequence of pieces (decimal strings are spelled one       *)
(*     character per piece, so that str() and int() are real conversions);  *)
(*   - Optional[x] is <<>> for None and <<x>> for a value;                  *)
(*   - a value stored in a decoded JSON document carries its type in the    *)
(*     field t (int, bool, str, list, null), and a key missing from a dict  *)
(*     is the marker JAbsent;                                               *)
(*   - SHA-256 is taken as collision-free: a digest is the record of the    *)
(*     bytes that were hashed.                                              *)
(***************************************************************************)
EXTENDS Integers, Sequences, FiniteSets, TLC

\* ------------------------------------------------------------------ bounds

MaxProgLen == 3
MaxStepLimit == 3
\* the longest program run against the wall clock or whose trace is edited
MaxEditedLen == 2
\* DIV taken alone: its operands have a magnitude of 0..MaxSmall, or of
\* 2^MantissaBits - 1 .. 2^MantissaBits + MaxExcess
MaxSmall == 5
MaxExcess == 3
\* the calls of DVCBundle.pack made on one directory
MaxPacks == 2
\* the defects put into one trace file
MaxDefects == 2
\* the colors one palette declares
MaxKeys == 2
\* the width and the height of an image, in pixels
MaxSide == 3

\* ------------------------------------------------------------ Python values

None == <<>>
Some(x) == <<x>>

JAbsent == [t |-> "absent"]
JNull == [t |-> "null"]
JInt(n) == [t |-> "int", n |-> n]
JBool(b) == [t |-> "bool", b |-> b]
JStr(s) == [t |-> "str", s |-> s]
JHex(h) == [t |-> "str", hex |-> h]
JList(l) == [t |-> "list", l |-> l]

JOptStr_or_null(o) == IF o = None THEN JNull ELSE JStr(o[1])

\* Optional[str] of a dataclass field as the entry of a dict built with
\* "if x is not None: d[key] = x".
JOptStr(o) == IF o = None THEN JAbsent ELSE JStr(o[1])

JStrList(ss) == JList([k \in 1..Len(ss) |-> JStr(ss[k])])

\* ------------------------------------------------------- str() and int()

DigitChars == <<"0", "1", "2", "3", "4", "5", "6", "7", "8", "9">>

IsDigit(c) == \E d \in 1..10 : DigitChars[d] = c

DigitVal(c) == (CHOOSE d \in 1..10 : DigitChars[d] = c) - 1

RECURSIVE NatStr(_)
NatStr(n) ==
    IF n < 10 THEN <<DigitChars[n + 1]>>
    ELSE NatStr(n \div 10) \o <<DigitChars[(n % 10) + 1]>>

\* str(v) of a Python int
str(v) == IF v < 0 THEN <<"-">> \o NatStr(-v) ELSE NatStr(v)

RECURSIVE DigitsVal(_)
DigitsVal(ds) ==
    IF ds = <<>> THEN 0
    ELSE 10 * DigitsVal(SubSeq(ds, 1, Len(ds) - 1)) + DigitVal(ds[Len(ds)])

\* int(s) of a Python str: an optional sign and at least one digit; anything
\* else raises ValueError (ok = FALSE).
int(s) ==
    LET signed == s # <<>> /\ s[1] \in {"+", "-"}
        body == IF signed THEN Tail(s) ELSE s
        ok == body # <<>> /\ \A k \in 1..Len(body) : IsDigit(body[k])
    IN  [ok |-> ok,
         val |-> IF ~ok THEN 0
                 ELSE IF signed /\ s[1] = "-" THEN -DigitsVal(body)
                 ELSE DigitsVal(body)]

to_str_list(vals) == [k \in 1..Len(vals) |-> str(vals[k])]

\* ------------------------------------------------------------- hash chain

ZERO_HASH == [zeros |-> 64]

canonical_json_bytes(obj) == [json |-> obj]

step_hash(step_obj, prev_hash_hex) ==
    [sha256 |-> [head |-> canonical_json_bytes(step_obj), tail |-> prev_hash_hex]]

\* ---------------------------------------------------------------- opcodes

OPCODES == {"NOP", "HALT", "PUSHI", "POP", "ADD", "SUB", "MUL", "DIV", "PRINT",
            "RED_OP", "GREEN_OP", "BLUE_OP", "WHITE_OP"}

Instruction(op, arg) == [op |-> op, arg |-> arg]

validate_instruction_allowing_any_arg(instr) ==
    /\ instr.op \in OPCODES
    /\ ~(instr.op = "PUSHI" /\ instr.arg = None)

validate_instruction(instr) ==
    /\ instr.op \in OPCODES
    /\ ~(instr.op = "PUSHI" /\ instr.arg = None)
    /\ ~(instr.op # "PUSHI" /\ instr.arg # None)

\* Immediates a program file can carry: from_json_array keeps str(arg) of
\* whatever the JSON held, so a validated immediate need not be a number.
Immediates == {<<"2">>, <<"0">>, <<"-", "3">>, <<"x">>}

Instructions ==
    {ins \in {Instruction(op, arg) : op \in OPCODES, arg \in {None} \cup {Some(a) : a \in Immediates}} :
        validate_instruction(ins)}

RECURSIVE SeqsUpTo(_, _)
SeqsUpTo(S, n) ==
    IF n = 0 THEN {<<>>}
    ELSE LET shorter == SeqsUpTo(S, n - 1)
         IN  shorter \cup {Append(p, x) : p \in {q \in shorter : Len(q) = n - 1}, x \in S}

\* Program.from_json_array returns exactly the sequences of validated
\* instructions.
Programs == SeqsUpTo(Instructions, MaxProgLen)

\* The instructions of the short programs, the ones run against the wall
\* clock and the ones whose traces are edited: they give steps with and
\* without arg, output and fault.
EditedInstructions ==
    {Instruction("PUSHI", Some(<<"2">>)), Instruction("PRINT", None),
     Instruction("POP", None), Instruction("HALT", None)}

ShortPrograms == SeqsUpTo(EditedInstructions, MaxEditedLen)

\* ------------------------------------------------------------------ the VM

VMState(ip, stack, outputs, status) ==
    [ip |-> ip, stack |-> stack, outputs |-> outputs, status |-> status]

\* What the try block of one dispatch leaves behind: the state as mutated so
\* far, step.output, and str(e) of the exception raised (None when it ran to
\* its end).
Outcome(st, output, exc) == [state |-> st, output |-> output, exc |-> exc]

push(st, x) == [st EXCEPT !.stack = Append(@, x)]

\* pop() on a non-empty stack: the stack that remains
popped(st) == [st EXCEPT !.stack = SubSeq(@, 1, Len(@) - 1)]

top(st) == st.stack[Len(st.stack)]

advance_past_next(st) == [st EXCEPT !.ip = @ + 2]

\* state.ip += 1
advance(st) == [st EXCEPT !.ip = @ + 1]

underflow(st) == Outcome(st, None, Some(<<"stack underflow">>))

\* ------------------------------------------------- Python's unbounded int
\* A natural number of any size is the sequence of its binary digits, most
\* significant first and without a leading zero (0 is <<>>); an int is
\* [neg, mag], and zero is never negative.

\* the significand of a double: a / b on ints is the correctly rounded float
MantissaBits == 53

Zeros(k) == [j \in 1..k |-> 0]

Strip(s) ==
    IF \A k \in 1..Len(s) : s[k] = 0 THEN <<>>
    ELSE LET first == CHOOSE k \in 1..Len(s) : s[k] = 1 /\ \A j \in 1..(k - 1) : s[j] = 0
         IN  SubSeq(s, first, Len(s))

Pad(s, n) == Zeros(n - Len(s)) \o s

RECURSIVE NatBits(_)
NatBits(n) == IF n = 0 THEN <<>> ELSE NatBits(n \div 2) \o <<n % 2>>

RECURSIVE BitsNat(_)
BitsNat(s) == IF s = <<>> THEN 0 ELSE 2 * BitsNat(SubSeq(s, 1, Len(s) - 1)) + s[Len(s)]

NatLess(x, y) ==
    IF Len(x) # Len(y) THEN Len(x) < Len(y)
    ELSE \E k \in 1..Len(x) : x[k] < y[k] /\ \A j \in 1..(k - 1) : x[j] = y[j]

NatLeq(x, y) == x = y \/ NatLess(x, y)

\* x - y for x >= y: digit k borrows when the digits after it are less in x
\* than in y
NatSub(x, y) ==
    LET n == Len(x)
        z == Pad(y, n)
        borrow(k) == \E j \in (k + 1)..n :
                         x[j] < z[j] /\ \A m \in (k + 1)..(j - 1) : x[m] = z[m]
    IN  Strip([k \in 1..n |-> (2 + x[k] - z[k] - (IF borrow(k) THEN 1 ELSE 0)) % 2])

\* x + 1
NatSucc(s) ==
    IF \A k \in 1..Len(s) : s[k] = 1 THEN <<1>> \o Zeros(Len(s))
    ELSE LET last == CHOOSE k \in 1..Len(s) : s[k] = 0 /\ \A j \in (k + 1)..Len(s) : s[j] = 1
         IN  [k \in 1..Len(s) |-> IF k < last THEN s[k] ELSE IF k = last THEN 1 ELSE 0]

\* x * 2^k
ShiftLeft(s, k) == IF s = <<>> THEN <<>> ELSE s \o Zeros(k)

\* Long division, digit k of x onward, with the quotient and the remainder
\* of the digits before it.
RECURSIVE DivDigits(_, _, _, _, _)
DivDigits(x, y, k, q, r) ==
    IF Len(q) + Len(r) >= 0 /\ k > Len(x) THEN [q |-> q, r |-> r]
    ELSE LET r2 == Strip(r \o <<x[k]>>)
             fits == NatLeq(y, r2)
         IN  DivDigits(x, y, k + 1,
                       Strip(q \o <<IF fits THEN 1 ELSE 0>>),
                       IF fits THEN NatSub(r2, y) ELSE r2)

\* x // y and x % y for y > 0
NatDivMod(x, y) == DivDigits(x, y, 1, <<>>, <<>>)

\* int(x / y) for naturals x and y > 0. x / y is the double nearest to the
\* exact quotient (MantissaBits significant digits, ties to even) and int()
\* drops its fraction. With q = x // y of n digits and r = x % y:
\*   n >= MantissaBits: the double keeps the first MantissaBits digits of q
\*     and is rounded by the digits dropped and by r;
\*   n < MantissaBits: the double is q + the fraction rounded to
\*     MantissaBits - n digits, which reaches q + 1 when
\*     (y - r) * 2^(MantissaBits + 1 - n) <= y.
\* (A quotient beyond the range of a double, 2^1024, raises OverflowError;
\* the operands here stay below it.)
rounded_quotient(q, r, y, n) ==
    IF n < MantissaBits THEN
        IF NatLeq(ShiftLeft(NatSub(y, r), MantissaBits + 1 - n), y)
        THEN NatSucc(q) ELSE q
    ELSE LET m == SubSeq(q, 1, MantissaBits)
             dropped == SubSeq(q, MantissaBits + 1, n)
             odd == m[MantissaBits] = 1
             \* the part dropped against half a unit of the last place
             above == IF dropped = <<>> THEN NatLess(y, ShiftLeft(r, 1))
                      ELSE /\ dropped[1] = 1
                           /\ (Strip(Tail(dropped)) # <<>> \/ r # <<>>)
             tie == IF dropped = <<>> THEN ShiftLeft(r, 1) = y
                    ELSE /\ dropped[1] = 1
                         /\ Strip(Tail(dropped)) = <<>> /\ r = <<>>
             up == above \/ (tie /\ odd)
         IN  ShiftLeft(IF up THEN NatSucc(m) ELSE m, n - MantissaBits)

\* the rounding applied to d = [q, r], the quotient and remainder by y
quotient_of(d, y) == rounded_quotient(d.q, d.r, y, Len(d.q))

nat_int_truediv(x, y) == quotient_of(NatDivMod(x, y), y)

Big(neg, mag) == [neg |-> neg /\ mag # <<>>, mag |-> mag]

IntBig(v) == IF v < 0 THEN Big(TRUE, NatBits(-v)) ELSE Big(FALSE, NatBits(v))

BigInt(x) == IF x.neg THEN -BitsNat(x.mag) ELSE BitsNat(x.mag)

\* int(a / b) on Python ints, b # 0: the sign of a float is the product of
\* the signs and rounding is symmetric
big_int_truediv(a, b) == Big(a.neg # b.neg, nat_int_truediv(a.mag, b.mag))

\* int(a / b) on the ints of the VM's stack
int_truediv(a, b) == BigInt(big_int_truediv(IntBig(a), IntBig(b)))

\* a + b, a - b, a * b
arith(op, a, b) ==
    IF op = "ADD" THEN a + b
    ELSE IF op = "SUB" THEN a - b
    ELSE a * b

\* "b, a = pop(), pop()" followed by the push of the result: the first pop
\* is done before the second one raises.
binary(st, op) ==
    IF st.stack = <<>> THEN underflow(st)
    ELSE IF popped(st).stack = <<>> THEN underflow(popped(st))
    ELSE LET b == top(st)
             a == top(popped(st))
         IN  Outcome(advance(push(popped(popped(st)), arith(op, a, b))), None, None)

try_block(instr, st) ==
    IF instr.op = "NOP" THEN Outcome(advance(st), None, None)
    ELSE IF instr.op = "HALT" THEN
        Outcome(advance([st EXCEPT !.status = "halted"]), None, None)
    ELSE IF instr.op = "PUSHI" THEN
        IF instr.arg = None THEN Outcome(st, None, Some(<<>>))
        ELSE IF ~int(instr.arg[1]).ok THEN
            Outcome(st, None,
                    Some(<<"invalid literal for int() with base 10: '">>
                         \o instr.arg[1] \o <<"'">>))
        ELSE Outcome(advance(push(st, int(instr.arg[1]).val)), None, None)
    ELSE IF instr.op = "POP" THEN
        IF st.stack = <<>> THEN underflow(st)
        ELSE Outcome(advance(popped(st)), None, None)
    ELSE IF instr.op \in {"ADD", "SUB", "MUL"} THEN binary(st, instr.op)
    ELSE IF instr.op = "DIV" THEN
        IF st.stack = <<>> THEN underflow(st)
        ELSE IF popped(st).stack = <<>> THEN underflow(popped(st))
        ELSE IF top(st) = 0 THEN
            Outcome(popped(popped(st)), None, Some(<<"division by zero">>))
        ELSE Outcome(advance(push(popped(popped(st)),
                                  int_truediv(top(popped(st)), top(st)))),
                     None, None)
    ELSE IF instr.op = "PRINT" THEN
        IF st.stack = <<>> THEN underflow(st)
        ELSE Outcome(advance([popped(st) EXCEPT !.outputs = Append(@, top(st))]),
                     Some(str(top(st))), None)
    ELSE Outcome(st, None, Some(<<"unknown opcode: ", instr.op>>))

dispatch_keeps_status(instr, st) == try_block(instr, st)

\* The try block with its except clause.
dispatch(instr, st) ==
    LET r == try_block(instr, st)
    IN  IF r.exc = None THEN r
        ELSE Outcome([r.state EXCEPT !.status = "faulted"], r.output, r.exc)

TraceStep(index, ip, op, arg, stack_before, stack_after, output, note, fault, hash) ==
    [index |-> index, ip |-> ip, op |-> op, arg |-> arg,
     stack_before |-> stack_before, stack_after |-> stack_after,
     output |-> output, note |-> note, fault |-> fault, step_hash |-> hash]

\* The dict of a step without its hash; a key that is not set is JAbsent.
step_to_ordered_dict(step) ==
    [index |-> JInt(step.index),
     ip |-> JInt(step.ip),
     op |-> JStr(<<step.op>>),
     arg |-> JOptStr(step.arg),
     stack_before |-> JStrList(step.stack_before),
     stack_after |-> JStrList(step.stack_after),
     output |-> JOptStr(step.output),
     note |-> JOptStr(step.note),
     fault |-> JOptStr(step.fault)]

\* {**step_to_ordered_dict(s), "step_hash": s.step_hash}
step_with_hash(d, h) ==
    [index |-> d.index, ip |-> d.ip, op |-> d.op, arg |-> d.arg,
     stack_before |-> d.stack_before, stack_after |-> d.stack_after,
     output |-> d.output, note |-> d.note, fault |-> d.fault,
     step_hash |-> h]

EPOCH == <<"1970-01-01T00:00:00Z">>

\* datetime.now(timezone.utc).strftime(ISO): the readings the wall clock can give
Clock == {<<"2025-01-01T00:00:00Z">>, <<"2025-01-01T00:00:01Z">>}

VARIABLES
    program,            \* execute's argument: Program.instructions
    step_limit,         \* execute's argument
    deterministic_meta, \* execute's argument
    started_at,         \* execute's local
    state,              \* execute's VMState
    steps,              \* execute's list of TraceStep
    prev,               \* execute's running hash
    i,                  \* execute's step counter
    faulted,            \* execute's flag
    pc,                 \* "loop" in execute's loop, "returned" once execute returned,
                        \* "verified" once verify_trace returned
    trace,              \* the dict execute returned (None before)
    strict,             \* verify_trace's argument (of the last call)
    verdict,            \* what verify_trace returned (None before)
    original,           \* the trace as it was before it was edited (None before)
    edit,               \* the one edit made to the trace file (None before)
    forged,             \* TRUE once the trace was rewritten and its chain recomputed
    operands,           \* DIV taken alone: <<a, b>> as popped, b from the top
    pushed,             \* DIV taken alone: the int it pushed (None before)
    earlier,            \* the dict an earlier call of execute returned (None before)
    fs,                 \* the files on disk: path -> content (None when there is no file)
    calls,              \* the calls of DVCBundle.pack and verify made so far, each
                        \* with its arguments and with what it returned or raised
    entry_edit,         \* the entry of the archive whose content was changed (None before)
    program_file,       \* dvc run: the content of the file at args.program (None: no file)
    trace_file,         \* dvc run: the content of the file at args.trace (None: no file)
    stdout,             \* dvc run: the JSON object printed (None before)
    exit_code,          \* dvc run: what cmd_run returned (None before)
    defects,            \* the defects put into the trace file, in the order made
    decoded,            \* the decoded JSON value handed to verify_trace (None before)
    verify_outcome,     \* what that call of verify_trace returned or raised (None before)
    palette_data,       \* the decoded palette file handed to ColorPalette.from_dict
                        \* (None: the color language is not in use)
    palette,            \* what from_dict returned or raised (None before)
    rgb,                \* match_color's argument (None before)
    matched,            \* what match_color returned or raised (None before)
    image,              \* the raster of the PNG file handed to decode_png (None: no image)
    decoded_png,        \* what decode_png returned or raised (None before)
    dvc_ir,             \* what lower_to_dvc_ir returned (None before)
    codec_obj,          \* the object handed to the canonical encoder (None: not in use)
    encoded,            \* the bytes the encoder made of it (None before)
    reloaded,           \* what the decoder returned or raised on those bytes (None before)
    reencoded           \* the bytes the encoder made of the loaded object (None before)

divVars == <<operands, pushed>>

bundleVars == <<fs, calls, entry_edit>>

\* the variables of the operations taken alone
cliVars == <<program_file, trace_file, stdout, exit_code>>

damageVars == <<defects, decoded, verify_outcome>>

colorVars == <<palette_data, palette, rgb, matched, image, decoded_png, dvc_ir>>

\* the canonical codec taken alone
codecVars == <<codec_obj, encoded, reloaded, reencoded>>

sideVars == <<divVars, earlier, bundleVars, cliVars, damageVars, colorVars, codecVars>>

vars == <<program, step_limit, deterministic_meta, started_at, state, steps, prev,
          i, faulted, pc, trace, strict, verdict, original, edit, forged, sideVars>>

editVars == <<original, edit, forged>>

execVars == <<program, step_limit, deterministic_meta, started_at, state, steps,
              prev, i, faulted>>

DivIdle ==
    /\ operands = None
    /\ pushed = None

\* No file exists and DVCBundle was not called.
BundleIdle ==
    /\ fs = <<>>
    /\ calls = <<>>
    /\ entry_edit = None

\* The command line was not used.
CliIdle ==
    /\ program_file = None
    /\ trace_file = None
    /\ stdout = None
    /\ exit_code = None

\* The trace file is as execute wrote it.
DamageIdle ==
    /\ defects = <<>>
    /\ decoded = None
    /\ verify_outcome = None

\* The color language is not in use.
ColorIdle ==
    /\ palette_data = None
    /\ palette = None
    /\ rgb = None
    /\ matched = None
    /\ image = None
    /\ decoded_png = None
    /\ dvc_ir = None

\* None of the operations taken alone is under way.
\* Nothing was encoded.
CodecIdle ==
    /\ codec_obj = None
    /\ encoded = None
    /\ reloaded = None
    /\ reencoded = None

SideIdle ==
    /\ DivIdle
    /\ earlier = None
    /\ BundleIdle
    /\ CliIdle
    /\ DamageIdle
    /\ ColorIdle
    /\ CodecIdle

\* --------------------------------------------------------------- execute

LoopCondition_ignores_status ==
    i < step_limit /\ state.ip < Len(program)

LoopCondition_ignores_step_limit ==
    state.status = "running" /\ state.ip < Len(program)

\* The condition of execute's while loop.
LoopCondition ==
    state.status = "running" /\ i < step_limit /\ state.ip < Len(program)

\* One iteration of execute's while loop: dispatch the instruction at ip and
\* emit its step.
Dispatch ==
    /\ pc = "loop"
    /\ LoopCondition
    /\ LET instr == program[state.ip + 1]
           r == dispatch(instr, state)
           step == TraceStep(i, state.ip, instr.op, instr.arg,
                             to_str_list(state.stack), to_str_list(r.state.stack),
                             r.output, None, r.exc, None)
           h == step_hash(step_to_ordered_dict(step), prev)
       IN  /\ state' = r.state
           /\ faulted' = (faulted \/ r.exc # None)
           /\ steps' = Append(steps, [step EXCEPT !.step_hash = Some(h)])
           /\ prev' = h
           /\ i' = i + 1
    /\ UNCHANGED <<program, step_limit, deterministic_meta, started_at, pc, trace,
                   strict, verdict, editVars>>
    /\ UNCHANGED sideVars

final_status_without_limit == state.status

final_status_halting_at_the_end ==
    IF state.status = "running" THEN "halted" ELSE state.status

\* The status after "if i >= step_limit and state.status == 'running'": the
\* graceful halt at the step limit.
final_status ==
    IF i >= step_limit /\ state.status = "running" THEN "halted" ELSE state.status

meta_final_root_of_first_step ==
    IF steps = <<>> THEN ZERO_HASH ELSE steps[1].step_hash[1]

\* "final_root": prev
meta_final_root == prev

\* What execute does once the loop has ended: the meta block and the
\* returned dict.
built_trace(finished_at) ==
    LET status == final_status
        meta == [version |-> JStr(<<"dvc-trace-0.1">>),
                 step_limit |-> JInt(step_limit),
                 halted |-> JBool(status = "halted"),
                 faulted |-> JBool(faulted),
                 outputs |-> JStrList(to_str_list(state.outputs)),
                 final_root |-> JHex(meta_final_root),
                 started_at |-> JStr(started_at),
                 finished_at |-> JStr(finished_at),
                 color_provenance |-> JAbsent]
    IN  [meta |-> meta,
         steps |-> [k \in 1..Len(steps) |->
                      step_with_hash(step_to_ordered_dict(steps[k]),
                                     JHex(steps[k].step_hash[1]))]]

finished_at_readings_of_the_wall_clock == Clock

\* finished_at: the literal with deterministic_meta, else a reading of the
\* clock
finished_at_readings == IF deterministic_meta THEN {EPOCH} ELSE Clock

Return ==
    /\ pc = "loop"
    /\ ~LoopCondition
    /\ \E finished_at \in finished_at_readings :
           trace' = Some(built_trace(finished_at))
    /\ state' = [state EXCEPT !.status = final_status]
    /\ pc' = "returned"
    /\ UNCHANGED <<program, step_limit, deterministic_meta, started_at, steps, prev,
                   i, faulted, strict, verdict, editVars>>
    /\ UNCHANGED sideVars

\* ----------------------------------------------------------- verify_trace

\* Python's == on decoded JSON values: lists compare element by element, and
\* bool is an int (True == 1, False == 0).
RECURSIVE PyEq(_, _)
PyEq(a, b) ==
    IF a.t = "list" /\ b.t = "list" THEN
        /\ Len(a.l) = Len(b.l)
        /\ \A k \in 1..Len(a.l) : PyEq(a.l[k], b.l[k])
    ELSE IF a.t \in {"int", "bool"} /\ b.t \in {"int", "bool"} THEN
        LET num(x) == IF x.t = "int" THEN x.n ELSE IF x.b THEN 1 ELSE 0
        IN  num(a) = num(b)
    ELSE a.t = b.t /\ a = b

\* d.get(key) and d.get(key, default) on the entry of a dict
get(entry) == IF entry = JAbsent THEN JNull ELSE entry

get_or(entry, default) == IF entry = JAbsent THEN default ELSE entry

\* "key in d and d[key] is not None"
present(entry) == entry # JAbsent /\ entry # JNull

\* bool(x)
truthy(x) ==
    IF x.t = "null" THEN FALSE
    ELSE IF x.t = "bool" THEN x.b
    ELSE IF x.t = "int" THEN x.n # 0
    ELSE IF x.t = "list" THEN x.l # <<>>
    ELSE IF x.t = "str" THEN x # JStr(<<>>)
    ELSE IF x.t = "dict" THEN \E key \in DOMAIN x.d : x.d[key] # JAbsent
    ELSE FALSE

isinstance_int(x) == x.t \in {"int", "bool"}

isinstance_str(x) == x.t = "str"

isinstance_dict(x) == x.t = "dict"

as_int(x) == IF x.t = "int" THEN x.n ELSE IF x.b THEN 1 ELSE 0

required_fields_without_step_hash ==
    <<"index", "ip", "op", "stack_before", "stack_after">>

required_fields == <<"index", "ip", "op", "stack_before", "stack_after", "step_hash">>

verifier_step_dict_without_fault(step) ==
    [index |-> step.index,
     ip |-> step.ip,
     op |-> step.op,
     arg |-> IF present(step.arg) THEN step.arg ELSE JAbsent,
     stack_before |-> step.stack_before,
     stack_after |-> step.stack_after,
     output |-> IF present(step.output) THEN step.output ELSE JAbsent,
     note |-> IF present(step.note) THEN step.note ELSE JAbsent,
     fault |-> JAbsent]

verifier_step_dict_of_every_key(step) ==
    [key \in DOMAIN step \ {"step_hash"} |->
        IF key \in {"arg", "output", "note", "fault"} /\ ~present(step[key]) THEN JAbsent
        ELSE step[key]]

\* The dict the verifier hashes for a step: an optional key is taken only
\* when it is present and not None.
verifier_step_dict(step) ==
    [index |-> step.index,
     ip |-> step.ip,
     op |-> step.op,
     arg |-> IF present(step.arg) THEN step.arg ELSE JAbsent,
     stack_before |-> step.stack_before,
     stack_after |-> step.stack_after,
     output |-> IF present(step.output) THEN step.output ELSE JAbsent,
     note |-> IF present(step.note) THEN step.note ELSE JAbsent,
     fault |-> IF present(step.fault) THEN step.fault ELSE JAbsent]

Failure(error, at) == [error |-> error, at |-> at]

hash_matches_always(computed_hash, claimed_hash) == TRUE

\* "computed_hash != claimed_hash", negated
hash_matches(computed_hash, claimed_hash) == PyEq(JHex(computed_hash), claimed_hash)

\* The loop over the steps (required fields, then the recomputed hash) from
\* position k on: None, or the first failure.
RECURSIVE chain_check(_, _, _)
chain_check(tsteps, k, prev_hash) ==
    IF k > Len(tsteps) THEN None
    ELSE
        LET step == tsteps[k]
            missing == {f \in 1..Len(required_fields) : step[required_fields[f]] = JAbsent}
        IN  IF missing # {} THEN
                Some(Failure(<<"missing field ",
                               required_fields[CHOOSE f \in missing : \A g \in missing : f <= g],
                               " at step">>, k - 1))
            ELSE
                LET computed_hash == step_hash(verifier_step_dict(step), prev_hash)
                    claimed_hash == get_or(step.step_hash, JStr(<<>>))
                IN  IF ~hash_matches(computed_hash, claimed_hash) THEN
                        Some(Failure(<<"hash chain broken at step">>, k - 1))
                    ELSE chain_check(tsteps, k + 1, computed_hash)

step_outputs(tsteps) ==
    LET RECURSIVE collect(_)
        collect(k) ==
            IF k > Len(tsteps) THEN <<>>
            ELSE IF present(tsteps[k].output) THEN <<tsteps[k].output>> \o collect(k + 1)
            ELSE collect(k + 1)
    IN  collect(1)

provenance_fields ==
    <<"palette_hash", "compiler_version", "tile_size", "grid_size", "compilation_summary">>

\* The checks of a truthy meta.color_provenance held as a dict: None, or the
\* first failure.
provenance_check(cp) ==
    LET d == cp.d
        missing == {f \in 1..Len(provenance_fields) : d[provenance_fields[f]] = JAbsent}
        grid_size == d.grid_size
        summary == d.compilation_summary
    IN  IF missing # {} THEN
            Some(Failure(<<"color_provenance missing required field: ",
                           provenance_fields[CHOOSE f \in missing : \A g \in missing : f <= g]>>, -1))
        ELSE IF ~isinstance_str(d.palette_hash) \/ ~truthy(d.palette_hash) THEN
            Some(Failure(<<"color_provenance.palette_hash is invalid">>, -1))
        ELSE IF ~isinstance_str(d.compiler_version) \/ ~truthy(d.compiler_version) THEN
            Some(Failure(<<"color_provenance.compiler_version is invalid">>, -1))
        ELSE IF ~isinstance_int(d.tile_size) \/ as_int(d.tile_size) <= 0 THEN
            Some(Failure(<<"color_provenance.tile_size is invalid">>, -1))
        ELSE IF \/ ~isinstance_dict(grid_size)
                \/ grid_size.d.width = JAbsent
                \/ grid_size.d.height = JAbsent THEN
            Some(Failure(<<"color_provenance.grid_size is invalid">>, -1))
        ELSE IF \/ ~isinstance_int(grid_size.d.width) \/ as_int(grid_size.d.width) <= 0
                \/ ~isinstance_int(grid_size.d.height) \/ as_int(grid_size.d.height) <= 0 THEN
            Some(Failure(<<"color_provenance.grid_size dimensions are invalid">>, -1))
        ELSE IF \/ ~isinstance_dict(summary)
                \/ summary.d.tiles_processed = JAbsent
                \/ summary.d.instructions_generated = JAbsent THEN
            Some(Failure(<<"color_provenance.compilation_summary is invalid">>, -1))
        ELSE IF \/ ~isinstance_int(summary.d.tiles_processed)
                \/ as_int(summary.d.tiles_processed) < 0
                \/ ~isinstance_int(summary.d.instructions_generated)
                \/ as_int(summary.d.instructions_generated) < 0 THEN
            Some(Failure(<<"color_provenance.compilation_summary counts are invalid">>, -1))
        ELSE None

\* The strict-mode checks: None, or the first failure.
strict_check(tsteps) ==
    LET bad_index == {k \in 1..Len(tsteps) : ~PyEq(get(tsteps[k].index), JInt(k - 1))}
        bad_stack == {k \in 1..(Len(tsteps) - 1) :
                        ~PyEq(tsteps[k].stack_after, tsteps[k + 1].stack_before)}
        first(S) == CHOOSE k \in S : \A m \in S : k <= m
    IN  IF bad_index # {} THEN
            Some(Failure(<<"step index mismatch at position">>, first(bad_index) - 1))
        ELSE IF bad_stack # {} THEN
            Some(Failure(<<"stack discontinuity between steps">>, first(bad_stack) - 1))
        ELSE None

verify_trace(tr, strict_mode) ==
    LET meta == tr.meta
        tsteps == tr.steps
        expected_final ==
            IF tsteps = <<>> THEN JHex(ZERO_HASH)
            ELSE get_or(tsteps[Len(tsteps)].step_hash, JStr(<<>>))
        result(status, failure, final_root) ==
            [status |-> status,
             valid |-> (status = "valid"),
             error |-> failure,
             final_root |-> final_root,
             steps |-> Len(tsteps),
             faulted |-> truthy(get_or(meta.faulted, JBool(FALSE))),
             halted |-> truthy(get_or(meta.halted, JBool(FALSE)))]
        invalid(failure) == result("invalid", failure, expected_final)
        chain == chain_check(tsteps, 1, ZERO_HASH)
        color_provenance == get(meta.color_provenance)
        provenance ==
            IF truthy(color_provenance) THEN provenance_check(color_provenance) ELSE None
        strictness == IF strict_mode THEN strict_check(tsteps) ELSE None
    IN  IF ~PyEq(get(meta.final_root), expected_final) THEN
            result("invalid",
                   Some(Failure(<<"final_root does not match last step hash">>, -1)),
                   get_or(meta.final_root, JStr(<<>>)))
        ELSE IF chain # None THEN invalid(chain)
        ELSE IF ~PyEq(JList(step_outputs(tsteps)), get_or(meta.outputs, JList(<<>>))) THEN
            invalid(Some(Failure(<<"metadata outputs do not match step outputs">>, -1)))
        ELSE IF provenance # None THEN invalid(provenance)
        ELSE IF strictness # None THEN invalid(strictness)
        ELSE result("valid", None, expected_final)

\* A caller hands the trace execute returned to verify_trace.
Verify ==
    /\ pc = "returned"
    /\ \E strict_mode \in BOOLEAN :
           /\ strict' = strict_mode
           /\ verdict' = Some(verify_trace(trace[1], strict_mode))
    /\ pc' = "verified"
    /\ UNCHANGED <<execVars, trace, editVars>>
    /\ UNCHANGED sideVars

\* ------------------------------------------------------------ specification

\* execute's arguments: every program with deterministic_meta, the short
\* ones against the wall clock too.
Init ==
    /\ program \in Programs
    /\ step_limit \in 1..MaxStepLimit
    /\ deterministic_meta \in (IF program \in ShortPrograms THEN BOOLEAN ELSE {TRUE})
    /\ started_at \in (IF deterministic_meta THEN {EPOCH} ELSE Clock)
    /\ state = VMState(0, <<>>, <<>>, "running")
    /\ steps = <<>>
    /\ prev = ZERO_HASH
    /\ i = 0
    /\ faulted = FALSE
    /\ pc = "loop"
    /\ trace = None
    /\ strict = FALSE
    /\ verdict = None
    /\ original = None
    /\ edit = None
    /\ forged = FALSE
    /\ SideIdle

Next == Dispatch \/ Return \/ Verify

Spec == Init /\ [][Next]_vars

\* ------------------------------------------------- edited trace files

step_fields ==
    <<"index", "ip", "op", "arg", "stack_before", "stack_after", "output", "note", "fault">>

\* The values an editor of the trace file writes into a field of a step;
\* JAbsent is the removal of an optional key.
FieldValues(field) ==
    IF field \in {"index", "ip"} THEN {JInt(0), JInt(1), JBool(TRUE), JNull}
    ELSE IF field = "op" THEN {JStr(<<"NOP">>), JStr(<<"PRINT">>)}
    ELSE IF field = "arg" THEN {JAbsent, JNull, JStr(<<"2">>), JStr(<<"7">>)}
    ELSE IF field \in {"stack_before", "stack_after"} THEN
        {JList(<<>>), JList(<<JStr(<<"2">>)>>), JList(<<JInt(2)>>)}
    ELSE IF field = "output" THEN {JAbsent, JNull, JStr(<<"2">>), JInt(1), JBool(TRUE)}
    ELSE IF field = "note" THEN {JAbsent, JNull, JStr(<<"checked">>)}
    ELSE {JAbsent, JNull, JStr(<<"stack underflow">>)}

\* The lists an editor writes into meta.outputs
OutputLists == SeqsUpTo({JStr(<<"2">>), JStr(<<"7">>), JInt(1), JBool(TRUE)}, MaxEditedLen)

\* The values an editor writes into step_hash
HashValues(tr) ==
    {JHex([ffs |-> 32]), JHex(ZERO_HASH), JStr(<<>>), JNull}
        \cup {tr.steps[k].step_hash : k \in 1..Len(tr.steps)}

\* The steps with their hashes recomputed as the chain defines them.
RECURSIVE rechained(_, _, _)
rechained(tsteps, k, prev_hash) ==
    IF k > Len(tsteps) THEN <<>>
    ELSE LET h == step_hash(verifier_step_dict(tsteps[k]), prev_hash)
         IN  <<[tsteps[k] EXCEPT !.step_hash = JHex(h)]>> \o rechained(tsteps, k + 1, h)

\* A trace written by a producer other than execute: the steps as given,
\* chained from ZERO_HASH, with final_root and outputs set from the steps.
resealed(tr, tsteps) ==
    LET chained == rechained(tsteps, 1, ZERO_HASH)
    IN  [meta |-> [tr.meta EXCEPT
                     !.final_root = IF chained = <<>> THEN JHex(ZERO_HASH)
                                    ELSE chained[Len(chained)].step_hash,
                     !.outputs = JList(step_outputs(chained))],
         steps |-> chained]

\* A producer other than execute writes the trace: one field of one step
\* differs from what execute wrote, and the chain is computed over it.
Rewrite ==
    /\ pc = "returned"
    /\ edit = None
    /\ ~forged
    /\ \E k \in 1..Len(trace[1].steps) :
       \E field \in {"index", "output", "note", "fault", "arg"} :
       \E value \in FieldValues(field) :
           /\ value # trace[1].steps[k][field]
           /\ trace' = Some(resealed(trace[1],
                                     [trace[1].steps EXCEPT ![k][field] = value]))
    /\ forged' = TRUE
    /\ UNCHANGED <<execVars, pc, strict, verdict, original, edit>>
    /\ UNCHANGED sideVars

Edit(kind, k, field) == [kind |-> kind, k |-> k, field |-> field]

\* The trace file is edited: one field of step k other than step_hash gets
\* another value, every step_hash is left as it was.
EditStep ==
    /\ pc = "returned"
    /\ edit = None
    /\ \E k \in 1..Len(trace[1].steps) :
       \E f \in 1..Len(step_fields) :
       \E value \in FieldValues(step_fields[f]) :
           /\ value # trace[1].steps[k][step_fields[f]]
           /\ trace' = Some([trace[1] EXCEPT !.steps[k][step_fields[f]] = value])
           /\ edit' = Some(Edit("field", k - 1, step_fields[f]))
    /\ original' = trace
    /\ UNCHANGED <<execVars, pc, strict, verdict, forged>>
    /\ UNCHANGED sideVars

\* The trace file is edited: step_hash of step k gets another value.
EditHash ==
    /\ pc = "returned"
    /\ edit = None
    /\ \E k \in 1..Len(trace[1].steps) :
       \E value \in HashValues(trace[1]) :
           /\ value # trace[1].steps[k].step_hash
           /\ trace' = Some([trace[1] EXCEPT !.steps[k].step_hash = value])
           /\ edit' = Some(Edit("step_hash", k - 1, "step_hash"))
    /\ original' = trace
    /\ UNCHANGED <<execVars, pc, strict, verdict, forged>>
    /\ UNCHANGED sideVars

\* The trace file is edited: meta.outputs gets another list.
EditOutputs ==
    /\ pc = "returned"
    /\ edit = None
    /\ \E outputs \in OutputLists :
           /\ JList(outputs) # trace[1].meta.outputs
           /\ trace' = Some([trace[1] EXCEPT !.meta.outputs = JList(outputs)])
           /\ edit' = Some(Edit("outputs", -1, "outputs"))
    /\ original' = trace
    /\ UNCHANGED <<execVars, pc, strict, verdict, forged>>
    /\ UNCHANGED sideVars

InitEdited ==
    /\ program \in ShortPrograms
    /\ step_limit = MaxStepLimit
    /\ deterministic_meta = TRUE
    /\ started_at = EPOCH
    /\ state = VMState(0, <<>>, <<>>, "running")
    /\ steps = <<>>
    /\ prev = ZERO_HASH
    /\ i = 0
    /\ faulted = FALSE
    /\ pc = "loop"
    /\ trace = None
    /\ strict = FALSE
    /\ verdict = None
    /\ original = None
    /\ edit = None
    /\ forged = FALSE
    /\ SideIdle

NextEdited ==
    Dispatch \/ Return \/ Rewrite \/ EditStep \/ EditHash \/ EditOutputs \/ Verify

SpecEdited == InitEdited /\ [][NextEdited]_vars

\* ------------------------------------------------- claims on verify_trace

Accepted(tr) == verify_trace(tr, strict).status = "valid"

EditedKind(kind) ==
    /\ pc = "verified"
    /\ edit # None
    /\ edit[1].kind = kind
    /\ Accepted(original[1])

\* C2: in an accepted trace, another value for one field of step k other
\* than step_hash (an optional field added or removed included), with every
\* step_hash left as it was, makes verify_trace return invalid, the failure
\* being reported at step k.
C2_FieldEditDetectedAtStep ==
    EditedKind("field") =>
        /\ verdict[1].status = "invalid"
        /\ verdict[1].error # None
        /\ verdict[1].error[1].at = edit[1].k

\* C4: in an accepted trace, another value for the step_hash of one step
\* makes verify_trace return invalid, for the last step as for an earlier
\* one.
C4_HashEditDetected ==
    EditedKind("step_hash") =>
        /\ verdict[1].status = "invalid"
        /\ ~verdict[1].valid

\* The step_hash of the first of two steps was replaced by a well-formed
\* digest and the chain is reported broken there.
C4_Witness ==
    /\ EditedKind("step_hash")
    /\ Len(trace[1].steps) = 2
    /\ edit[1].k = 0
    /\ trace[1].steps[1].step_hash = JHex([ffs |-> 32])
    /\ trace[1].meta.final_root = trace[1].steps[2].step_hash
    /\ verdict[1].status = "invalid"
    /\ verdict[1].error = Some(Failure(<<"hash chain broken at step">>, 0))

\* C5: in an accepted trace, another list for meta.outputs makes
\* verify_trace return invalid through the outputs-consistency check; a
\* trace is valid only if the list of its per-step output values, in step
\* order and where present, is meta.outputs.
C5_OutputsEditDetected ==
    /\ EditedKind("outputs") =>
        /\ verdict[1].status = "invalid"
        /\ verdict[1].error =
               Some(Failure(<<"metadata outputs do not match step outputs">>, -1))
    /\ (pc = "verified" /\ verdict[1].status = "valid") =>
        trace[1].meta.outputs = JList(step_outputs(trace[1].steps))

\* ------------------------------------------------------ claims on execute

ReturnedTrace == trace[1]

LastStep(tr) == tr.steps[Len(tr.steps)]

HasFault(tstep) == tstep.fault # JAbsent

\* C1: the trace execute returns is accepted by verify_trace, with strict
\* false and with strict true, whatever ended the execution.
C1_ExecutedTraceVerifies ==
    (pc = "verified" /\ edit = None /\ ~forged) =>
        /\ verdict[1].status = "valid"
        /\ verdict[1].valid
        /\ verdict[1].error = None

\* A faulted trace of two steps or more was verified in strict mode.
C1_Witness ==
    /\ pc = "verified" /\ edit = None /\ ~forged
    /\ strict
    /\ faulted
    /\ Len(steps) >= 2
    /\ verdict[1].status = "valid"

\* C3: meta.final_root of the returned trace is the step_hash of the last
\* emitted step, or 64 zeros when no step was emitted.
C3_FinalRootIsLastHash ==
    (pc = "returned" /\ edit = None /\ ~forged) =>
        ReturnedTrace.meta.final_root =
            IF ReturnedTrace.steps = <<>> THEN JHex(ZERO_HASH)
            ELSE LastStep(ReturnedTrace).step_hash

\* A trace cut by the step limit, of two steps or more, whose final_root is
\* the hash of its last step and not the one of its first.
C3_Witness ==
    /\ pc = "returned" /\ edit = None /\ ~forged
    /\ Len(ReturnedTrace.steps) = step_limit
    /\ step_limit >= 2
    /\ state.ip < Len(program)
    /\ ~faulted
    /\ LastStep(ReturnedTrace).op # JStr(<<"HALT">>)
    /\ ReturnedTrace.meta.final_root = LastStep(ReturnedTrace).step_hash
    /\ ReturnedTrace.meta.final_root # ReturnedTrace.steps[1].step_hash

\* C6: no step is emitted after a fault: only the last emitted step can carry
\* a fault, and meta.faulted of the returned trace is true exactly when the
\* last step carries one.
C6_FaultIsLastStep ==
    /\ \A k \in 1..Len(steps) : steps[k].fault # None => k = Len(steps)
    /\ (pc = "returned" /\ edit = None /\ ~forged) =>
        /\ \A k \in 1..Len(ReturnedTrace.steps) :
               HasFault(ReturnedTrace.steps[k]) => k = Len(ReturnedTrace.steps)
        /\ (ReturnedTrace.meta.faulted = JBool(TRUE)) <=>
               (ReturnedTrace.steps # <<>> /\ HasFault(LastStep(ReturnedTrace)))

\* A fault on the second step with instructions and budget left: nothing
\* was emitted after it.
C6_Witness ==
    /\ pc = "returned" /\ edit = None /\ ~forged
    /\ Len(ReturnedTrace.steps) = 2
    /\ HasFault(LastStep(ReturnedTrace))
    /\ Len(program) > 2
    /\ step_limit > 2
    /\ ReturnedTrace.meta.faulted = JBool(TRUE)

FaultSituation(tstep) ==
    LET n == Len(tstep.stack_before.l)
    IN  \/ tstep.op \in {JStr(<<"POP">>), JStr(<<"PRINT">>)} /\ n = 0
        \/ tstep.op \in {JStr(<<"ADD">>), JStr(<<"SUB">>), JStr(<<"MUL">>), JStr(<<"DIV">>)} /\ n < 2
        \/ tstep.op = JStr(<<"DIV">>) /\ n >= 2 /\ tstep.stack_before.l[n] = JStr(<<"0">>)

ZeroDivisor(tstep) ==
    LET n == Len(tstep.stack_before.l)
    IN  tstep.op = JStr(<<"DIV">>) /\ n >= 2 /\ tstep.stack_before.l[n] = JStr(<<"0">>)

\* C7: a VM fault becomes trace state: POP or PRINT on an empty stack,
\* ADD/SUB/MUL/DIV on fewer than two elements and DIV by zero give a returned
\* trace whose step carries a fault string ("division by zero" for the zero
\* divisor), with faulted true and halted false.
C7_FaultRecordedInTrace ==
    (pc = "returned" /\ edit = None /\ ~forged) =>
        \A k \in 1..Len(ReturnedTrace.steps) :
            FaultSituation(ReturnedTrace.steps[k]) =>
                /\ ReturnedTrace.steps[k].fault.t = "str"
                /\ ZeroDivisor(ReturnedTrace.steps[k]) =>
                       ReturnedTrace.steps[k].fault = JStr(<<"division by zero">>)
                /\ ~ZeroDivisor(ReturnedTrace.steps[k]) =>
                       ReturnedTrace.steps[k].fault = JStr(<<"stack underflow">>)
                /\ ReturnedTrace.meta.faulted = JBool(TRUE)
                /\ ReturnedTrace.meta.halted = JBool(FALSE)

\* DIV by zero on the last step allowed by the step limit: the trace is
\* faulted and not halted.
C7_Witness ==
    /\ pc = "returned" /\ edit = None /\ ~forged
    /\ Len(ReturnedTrace.steps) = 3
    /\ step_limit = 3
    /\ ZeroDivisor(ReturnedTrace.steps[3])
    /\ ReturnedTrace.steps[3].fault = JStr(<<"division by zero">>)
    /\ ReturnedTrace.meta.faulted = JBool(TRUE)
    /\ ReturnedTrace.meta.halted = JBool(FALSE)

\* C8: when the loop ends with the budget exhausted and the VM still
\* running, the returned trace has exactly step_limit steps, halted true,
\* faulted false and no step with a fault.
C8_GracefulStepLimit ==
    [][(pc = "loop" /\ ~LoopCondition /\ i >= step_limit /\ state.status = "running") =>
        /\ pc' = "returned"
        /\ Len(trace'[1].steps) = step_limit
        /\ trace'[1].meta.halted = JBool(TRUE)
        /\ trace'[1].meta.faulted = JBool(FALSE)
        /\ \A k \in 1..Len(trace'[1].steps) : ~HasFault(trace'[1].steps[k])]_vars

\* A program cut by the limit before its end, without HALT, returned halted.
C8_Witness ==
    /\ pc = "returned" /\ edit = None /\ ~forged
    /\ Len(ReturnedTrace.steps) = step_limit
    /\ state.ip < Len(program)
    /\ \A k \in 1..Len(ReturnedTrace.steps) :
           /\ ~HasFault(ReturnedTrace.steps[k])
           /\ ReturnedTrace.steps[k].op # JStr(<<"HALT">>)
    /\ ReturnedTrace.meta.halted = JBool(TRUE)
    /\ ReturnedTrace.meta.faulted = JBool(FALSE)

\* The integer a decimal string denotes, when it denotes one.
DecimalValues(a) == {v \in -9..9 : str(v) = a}

Front(q) == SubSeq(q, 1, Len(q) - 1)

\* The effect the opcode table gives an instruction whose precondition holds.
TableEffect(instr, st, st2, emitted) ==
    LET s == st.stack
        n == Len(s)
    IN  /\ st2.ip = st.ip + 1
        /\ emitted.stack_before = to_str_list(s)
        /\ emitted.stack_after = to_str_list(st2.stack)
        /\ emitted.fault = None
        /\ instr.op # "PRINT" => st2.outputs = st.outputs /\ emitted.output = None
        /\ instr.op # "HALT" => st2.status = "running"
        /\ instr.op = "NOP" => st2.stack = s
        /\ instr.op = "HALT" => st2.stack = s /\ st2.status = "halted"
        /\ instr.op = "PUSHI" =>
               \E v \in DecimalValues(instr.arg[1]) : st2.stack = Append(s, v)
        /\ instr.op = "POP" => st2.stack = Front(s)
        /\ instr.op = "ADD" => st2.stack = Append(Front(Front(s)), s[n - 1] + s[n])
        /\ instr.op = "SUB" => st2.stack = Append(Front(Front(s)), s[n - 1] - s[n])
        /\ instr.op = "MUL" => st2.stack = Append(Front(Front(s)), s[n - 1] * s[n])
        /\ instr.op = "PRINT" =>
               /\ st2.stack = Front(s)
               /\ st2.outputs = Append(st.outputs, s[n])
               /\ emitted.output = Some(str(s[n]))

TablePrecondition(instr, st) ==
    \/ instr.op \in {"NOP", "HALT"}
    \/ instr.op = "PUSHI" /\ instr.arg # None
    \/ instr.op \in {"POP", "PRINT"} /\ Len(st.stack) >= 1
    \/ instr.op \in {"ADD", "SUB", "MUL"} /\ Len(st.stack) >= 2

\* C9: a dispatched instruction whose precondition holds has the effect of
\* the opcode table on the stack, the outputs, the status and ip, and the
\* emitted step records the stack before and after.
C9_OpcodeTable ==
    [][(pc = "loop" /\ LoopCondition /\ TablePrecondition(program[state.ip + 1], state)) =>
        TableEffect(program[state.ip + 1], state, state', steps'[Len(steps')])]_vars

ReservedOpcodes == {"RED_OP", "GREEN_OP", "BLUE_OP", "WHITE_OP"}

\* C10: a reserved opcode is dispatched as NOP: ip advances by 1, the stack
\* and the outputs are unchanged, no fault is recorded and the VM is still
\* running.
C10_ReservedIsNop ==
    [][(pc = "loop" /\ LoopCondition /\ program[state.ip + 1].op \in ReservedOpcodes) =>
        /\ state'.ip = state.ip + 1
        /\ state'.stack = state.stack
        /\ state'.outputs = state.outputs
        /\ state'.status = "running"
        /\ steps'[Len(steps')].fault = None
        /\ ~faulted']_vars


\* --------------------------------------------------------- DIV taken alone

\* execute has not been called and no trace exists.
NoExecution ==
    /\ program = <<>>
    /\ step_limit = 1
    /\ deterministic_meta = TRUE
    /\ started_at = EPOCH
    /\ state = VMState(0, <<>>, <<>>, "running")
    /\ steps = <<>>
    /\ prev = ZERO_HASH
    /\ i = 0
    /\ faulted = FALSE
    /\ trace = None
    /\ strict = FALSE
    /\ verdict = None
    /\ original = None
    /\ edit = None
    /\ forged = FALSE

Magnitudes ==
    {NatBits(v) : v \in 0..MaxSmall}
        \cup {[j \in 1..MantissaBits |-> 1]}
        \cup {<<1>> \o Pad(NatBits(e), MantissaBits) : e \in 0..MaxExcess}

\* The ints PUSHI can put on the stack: int() of a decimal string has no
\* bound.
StackInts == {Big(neg, mag) : neg \in BOOLEAN, mag \in Magnitudes}

InitDiv ==
    /\ NoExecution
    /\ pc = "DIV"
    /\ operands \in {Some(<<a, b>>) : a \in StackInts, b \in StackInts \ {Big(FALSE, <<>>)}}
    /\ pushed = None
    /\ earlier = None
    /\ BundleIdle
    /\ CliIdle
    /\ DamageIdle
    /\ ColorIdle
    /\ CodecIdle

\* "b, a = pop(), pop()" with b # 0, then push(int(a / b)).
Div ==
    /\ pc = "DIV"
    /\ pushed' = Some(big_int_truediv(operands[1][1], operands[1][2]))
    /\ pc' = "pushed"
    /\ UNCHANGED <<execVars, trace, strict, verdict, editVars, operands, earlier,
                   bundleVars, cliVars, damageVars,
                   colorVars, codecVars>>

NextDiv == Div

SpecDiv == InitDiv /\ [][NextDiv]_vars

\* C11: DIV pushes the quotient truncated toward zero: its magnitude is
\* floor(|a| / |b|) and its sign is sign(a) * sign(b).
C11_DivTruncatesTowardZero ==
    pc = "pushed" =>
        LET a == operands[1][1]
            b == operands[1][2]
        IN  pushed[1] = Big(a.neg # b.neg, NatDivMod(a.mag, b.mag).q)

\* -5 DIV 2 gave -2.
C11_Witness ==
    /\ pc = "pushed"
    /\ operands = Some(<<IntBig(-5), IntBig(2)>>)
    /\ pushed = Some(IntBig(-2))

\* ------------------------------------------------------- execute run twice

\* A second, independent call of execute with the same arguments: the dict
\* of the first call is kept aside and every local starts afresh.
Rerun ==
    /\ pc = "returned"
    /\ earlier = None
    /\ earlier' = trace
    /\ started_at' \in (IF deterministic_meta THEN {EPOCH} ELSE Clock)
    /\ state' = VMState(0, <<>>, <<>>, "running")
    /\ steps' = <<>>
    /\ prev' = ZERO_HASH
    /\ i' = 0
    /\ faulted' = FALSE
    /\ trace' = None
    /\ pc' = "loop"
    /\ UNCHANGED <<program, step_limit, deterministic_meta, strict, verdict, editVars,
                   divVars, bundleVars, cliVars, damageVars,
                   colorVars, codecVars>>

\* The arguments of the two calls: every program, with the largest budget.
InitTwice == Init /\ step_limit = MaxStepLimit

NextTwice == Dispatch \/ Return \/ Rerun

SpecTwice == InitTwice /\ [][NextTwice]_vars

WithoutTimestamps(tr) ==
    [tr EXCEPT !.meta.started_at = JNull, !.meta.finished_at = JNull]

\* C12: two calls of execute on the same program with the same step limit
\* return the same dict when deterministic_meta is true, both timestamps
\* being 1970-01-01T00:00:00Z; without it the two dicts are the same but for
\* started_at and finished_at.
C12_ExecuteIsDeterministic ==
    (pc = "returned" /\ earlier # None) =>
        /\ WithoutTimestamps(trace[1]) = WithoutTimestamps(earlier[1])
        /\ deterministic_meta =>
            /\ trace = earlier
            /\ trace[1].meta.started_at = JStr(EPOCH)
            /\ trace[1].meta.finished_at = JStr(EPOCH)

\* Two runs against the wall clock of a program that prints: the dicts
\* differ, in their timestamps only.
C12_Witness ==
    /\ pc = "returned" /\ earlier # None
    /\ ~deterministic_meta
    /\ Len(trace[1].steps) >= 2
    /\ trace[1].meta.outputs # JList(<<>>)
    /\ trace # earlier
    /\ trace[1].meta.started_at # earlier[1].meta.started_at
    /\ WithoutTimestamps(trace[1]) = WithoutTimestamps(earlier[1])

\* ------------------------------------------------- the archive (bundle.py)
\* A file's content is its bytes: [t |-> "bytes", b] for bytes that are no
\* JSON text, [t |-> "json", doc] for the text of a JSON document (json.dump
\* and json.load are one-to-one on it), [t |-> "zip", entries] for a ZIP
\* archive, whose entries carry the normalized ZipInfo and so are given by
\* their names and data, in the order written.

Bytes(b) == [t |-> "bytes", b |-> b]

JsonFile(doc) == [t |-> "json", doc |-> doc]

Zip(entries) == [t |-> "zip", entries |-> entries]

ZipEntry(name, data) == [name |-> name, data |-> data]

Raised(exc, msg) == [raised |-> exc, msg |-> msg]

Returned(value) == [returned |-> value]

calculate_sha256(content) == [sha256 |-> content]

image_path == "in/image.png"
palette_path == "in/palette.json"
program_path == "in/program.json"
trace_path == "in/trace.json"

InputPaths == {image_path, palette_path, program_path, trace_path}

\* two targets in one directory
OutputPaths == {"out/a.dvcf", "out/b.dvcf"}

\* self.bundle_path.parent / "manifest.json.tmp"
temp_manifest_path == "out/manifest.json.tmp"

Paths == InputPaths \cup OutputPaths \cup {temp_manifest_path}

\* str(Path(dir) / path.name)
arcname(path) ==
    IF path = image_path THEN "assets/image.png"
    ELSE IF path = palette_path THEN "assets/palette.json"
    ELSE IF path = program_path THEN "build/program.json"
    ELSE "trace/trace.json"

\* The JSON documents of the trace files packed.
JDict(meta) == [t |-> "dict", meta |-> meta]

JMeta(final_root, color_provenance) ==
    [t |-> "dict", final_root |-> final_root, color_provenance |-> color_provenance]

TraceDocs ==
    {JDict(JMeta(JStr(<<"r">>), JAbsent)),
     JDict(JMeta(JStr(<<"r">>), JStr(<<"provenance">>))),
     JDict(JMeta(JAbsent, JAbsent)),
     JDict(JAbsent),
     JList(<<>>)}

\* trace_content.get("meta", {}).get("final_root", default) on a dict
meta_final_root_or(doc, default) ==
    IF doc.meta = JAbsent THEN default
    ELSE IF doc.meta.final_root = JAbsent THEN default
    ELSE doc.meta.final_root

\* datetime.now().isoformat() at the n-th call: the clock has moved on
\* between two calls
now_isoformat(n) == <<"2025-01-01T00:00:00.00000", n>>

\* calculated_manifest_hash in verify: the hash of the bytes of manifest.json
\* as stored in the archive, the key sha256 included
calculated_manifest_hash(manifest_content) == calculate_sha256(manifest_content)

\* manifest_data as built at lines 52-88, the key sha256 not yet in it
manifest_data(fsys, created_at) ==
    LET doc == fsys[trace_path][1].doc
    IN  [version |-> "dvcf-v0.1",
         created_at |-> created_at,
         tool |-> "dvc-cli",
         tool_version |-> "0.1",
         program |-> [path |-> arcname(program_path),
                      sha256 |-> calculate_sha256(fsys[program_path][1])],
         trace |-> [path |-> arcname(trace_path),
                    sha256 |-> calculate_sha256(fsys[trace_path][1]),
                    final_root |-> meta_final_root_or(doc, JStr(<<>>))],
         assets |-> <<[path |-> arcname(image_path),
                       sha256 |-> calculate_sha256(fsys[image_path][1])],
                      [path |-> arcname(palette_path),
                       sha256 |-> calculate_sha256(fsys[palette_path][1])]>>,
         provenance |-> IF doc.meta = JAbsent THEN JAbsent ELSE doc.meta.color_provenance,
         sha256 |-> None]

bundle_path_exists_never(fsys, path) == FALSE

\* self.bundle_path.exists() at the head of pack
bundle_path_exists(fsys, path) == fsys[path] # None

\* Path.exists()
exists(fsys, path) == fsys[path] # None

\* The input read first that is missing: the files are hashed in the order
\* program, trace, image, palette.
first_missing(fsys) ==
    IF ~exists(fsys, program_path) THEN program_path
    ELSE IF ~exists(fsys, trace_path) THEN trace_path
    ELSE IF ~exists(fsys, image_path) THEN image_path
    ELSE palette_path

\* DVCBundle.pack: the files it leaves and what it returns or raises.
\* zip_written is the file system's part: FALSE when writing the archive
\* raises OSError (the target is a dangling link, the disk is full).
\* The argument deterministic_meta is never read.
pack(fsys, output_bundle_path, created_at, zip_written) ==
    IF bundle_path_exists(fsys, output_bundle_path) THEN
        [fs |-> fsys,
         outcome |-> Raised("DVCBundleError",
                            <<"Output bundle already exists: ", output_bundle_path>>)]
    ELSE IF \E p \in InputPaths : ~exists(fsys, p) THEN
        [fs |-> fsys, outcome |-> Raised("FileNotFoundError", <<first_missing(fsys)>>)]
    ELSE IF fsys[trace_path][1].t # "json" THEN
        [fs |-> fsys,
         outcome |-> Raised("DVCBundleError", <<"Invalid JSON in trace file ", trace_path>>)]
    ELSE IF fsys[trace_path][1].doc.t # "dict" THEN
        [fs |-> fsys,
         outcome |-> Raised("AttributeError", <<"'list' object has no attribute 'get'">>)]
    ELSE LET without_key == manifest_data(fsys, created_at)
             manifest_data_sha256 == calculate_sha256(JsonFile(without_key))
             with_key == [without_key EXCEPT !.sha256 = Some(manifest_data_sha256)]
             temp == [fsys EXCEPT ![temp_manifest_path] = Some(JsonFile(with_key))]
             entries == <<ZipEntry("manifest.json", temp[temp_manifest_path][1]),
                          ZipEntry(arcname(image_path), fsys[image_path][1]),
                          ZipEntry(arcname(palette_path), fsys[palette_path][1]),
                          ZipEntry(arcname(program_path), fsys[program_path][1]),
                          ZipEntry(arcname(trace_path), fsys[trace_path][1])>>
         IN  IF ~zip_written THEN
                 [fs |-> temp, outcome |-> Raised("OSError", <<output_bundle_path>>)]
             ELSE [fs |-> [temp EXCEPT ![output_bundle_path] = Some(Zip(entries)),
                                       ![temp_manifest_path] = None],
                   outcome |-> Returned(with_key)]

\* zf.open(name).read(): the data of the entry of that name (the last one
\* written), None for KeyError
zf_read(zf, name) ==
    LET found == {k \in 1..Len(zf) : zf[k].name = name}
    IN  IF found = {} THEN None
        ELSE Some(zf[CHOOSE k \in found : \A j \in found : j <= k].data)

\* hashlib.sha256(content).hexdigest() == info["sha256"]
content_hash_matches(content, info) == calculate_sha256(content) = info.sha256

\* DVCBundle.verify on the archives pack writes and edited copies of them:
\* what it returns or raises.
verify(fsys, bundle_path) ==
    IF ~exists(fsys, bundle_path) THEN
        Raised("DVCBundleError", <<"Bundle file not found: ", bundle_path>>)
    ELSE LET zf == fsys[bundle_path][1].entries
             manifest_content == zf_read(zf, "manifest.json")
         IN
         IF manifest_content = None THEN
             Raised("DVCBundleError", <<"Bundle is missing manifest.json">>)
         ELSE LET manifest == manifest_content[1].doc
                  program_content == zf_read(zf, manifest.program.path)
                  trace_content == zf_read(zf, manifest.trace.path)
                  bad_assets == {k \in 1..Len(manifest.assets) :
                                    LET asset_content == zf_read(zf, manifest.assets[k].path)
                                    IN  \/ asset_content = None
                                        \/ ~content_hash_matches(asset_content[1],
                                                                 manifest.assets[k])}
              IN
              IF /\ manifest.sha256 # None
                 /\ calculated_manifest_hash(manifest_content[1]) # manifest.sha256[1]
              THEN Raised("DVCBundleError", <<"Manifest SHA256 hash mismatch">>)
              ELSE IF program_content = None THEN
                  Raised("DVCBundleError",
                         <<"Program file not found in bundle: ", manifest.program.path>>)
              ELSE IF ~content_hash_matches(program_content[1], manifest.program) THEN
                  Raised("DVCBundleError",
                         <<"Program file SHA256 mismatch: ", manifest.program.path>>)
              ELSE IF trace_content = None THEN
                  Raised("DVCBundleError",
                         <<"Trace file not found in bundle: ", manifest.trace.path>>)
              ELSE IF ~content_hash_matches(trace_content[1], manifest.trace) THEN
                  Raised("DVCBundleError",
                         <<"Trace file SHA256 mismatch: ", manifest.trace.path>>)
              ELSE IF trace_content[1].t # "json" THEN
                  Raised("DVCBundleError",
                         <<"Invalid JSON in trace file ", manifest.trace.path>>)
              ELSE IF trace_content[1].doc.t # "dict" THEN
                  Raised("AttributeError", <<"'list' object has no attribute 'get'">>)
              ELSE IF ~PyEq(meta_final_root_or(trace_content[1].doc, JNull),
                            manifest.trace.final_root) THEN
                  Raised("DVCBundleError", <<"Trace final_root mismatch with manifest">>)
              ELSE IF bad_assets # {} THEN
                  LET k == CHOOSE b \in bad_assets : \A j \in bad_assets : b <= j
                  IN  IF zf_read(zf, manifest.assets[k].path) = None THEN
                          Raised("DVCBundleError",
                                 <<"Asset file not found in bundle: ", manifest.assets[k].path>>)
                      ELSE Raised("DVCBundleError",
                                  <<"Asset file SHA256 mismatch: ", manifest.assets[k].path>>)
              ELSE Returned([status |-> "valid",
                             message |-> "Bundle integrity verified successfully."])

Call(op, path, outcome) == [op |-> op, path |-> path, outcome |-> outcome]

LastCall == calls[Len(calls)]

NumPacks == Cardinality({k \in 1..Len(calls) : calls[k].op = "pack"})

\* The directory before the first call: the four inputs (the trace file may
\* be missing, or no JSON), and possibly a file at the first target.
InitBundle ==
    /\ NoExecution
    /\ DivIdle
    /\ earlier = None
    /\ pc = "bundle"
    /\ \E image_bytes \in {Bytes("i")}, palette_bytes \in {Bytes("p")},
          program_bytes \in {Bytes("[]"), Bytes("[1]")},
          trace_bytes \in {None, Some(Bytes("{"))} \cup {Some(JsonFile(d)) : d \in TraceDocs},
          target \in {None, Some(Zip(<<>>))} :
           fs = [p \in Paths |->
                    IF p = image_path THEN Some(image_bytes)
                    ELSE IF p = palette_path THEN Some(palette_bytes)
                    ELSE IF p = program_path THEN Some(program_bytes)
                    ELSE IF p = trace_path THEN trace_bytes
                    ELSE IF p = "out/a.dvcf" THEN target
                    ELSE None]
    /\ calls = <<>>
    /\ entry_edit = None
    /\ CliIdle
    /\ DamageIdle
    /\ ColorIdle
    /\ CodecIdle

\* One call of DVCBundle(...).pack on the four inputs.
Pack ==
    /\ pc = "bundle"
    /\ entry_edit = None
    /\ NumPacks < MaxPacks
    /\ \E output_bundle_path \in OutputPaths, zip_written \in BOOLEAN :
           LET r == pack(fs, output_bundle_path, now_isoformat(Len(calls) + 1), zip_written)
           IN  /\ fs' = r.fs
               /\ calls' = Append(calls, Call("pack", output_bundle_path, r.outcome))
    /\ UNCHANGED <<execVars, pc, trace, strict, verdict, editVars, divVars, earlier,
                   entry_edit, cliVars, damageVars,
                   colorVars, codecVars>>

\* Someone changes the content of one entry of the archive just packed.
EditEntry ==
    /\ pc = "bundle"
    /\ entry_edit = None
    /\ calls # <<>>
    /\ LastCall.op = "pack"
    /\ "returned" \in DOMAIN LastCall.outcome
    /\ \E path \in InputPaths, data \in {Bytes("tampered"), JsonFile(JDict(JAbsent))} :
           LET zf == fs[LastCall.path][1].entries
               k == CHOOSE j \in 1..Len(zf) : zf[j].name = arcname(path)
           IN  /\ zf[k].data # data
               /\ fs' = [fs EXCEPT ![LastCall.path] =
                            Some(Zip([zf EXCEPT ![k] = ZipEntry(arcname(path), data)]))]
               /\ entry_edit' = Some(arcname(path))
    /\ UNCHANGED <<execVars, pc, trace, strict, verdict, editVars, divVars, earlier, calls,
                   cliVars, damageVars,
                   colorVars, codecVars>>

\* One call of DVCBundle(bundle_path).verify().
BundleVerify ==
    /\ pc = "bundle"
    /\ calls # <<>>
    /\ \E bundle_path \in OutputPaths :
           /\ entry_edit # None => bundle_path = LastCall.path
           /\ calls' = Append(calls, Call("verify", bundle_path, verify(fs, bundle_path)))
    /\ pc' = "bundle_verified"
    /\ UNCHANGED <<execVars, trace, strict, verdict, editVars, divVars, earlier, fs,
                   entry_edit, cliVars, damageVars,
                   colorVars, codecVars>>

NextBundle == Pack \/ EditEntry \/ BundleVerify

SpecBundle == InitBundle /\ [][NextBundle]_vars

\* The call before the last one.
PreviousCall == calls[Len(calls) - 1]

IsReturned(call) == "returned" \in DOMAIN call.outcome

\* verify has just been called on the archive the call before it packed,
\* nothing having touched the archive in between.
VerifiedAfterPack ==
    /\ pc = "bundle_verified"
    /\ entry_edit = None
    /\ Len(calls) >= 2
    /\ PreviousCall.op = "pack"
    /\ IsReturned(PreviousCall)
    /\ LastCall.path = PreviousCall.path

valid_verdict == [status |-> "valid", message |-> "Bundle integrity verified successfully."]

\* C13: pack followed by verify on the archive pack produced succeeds:
\* verify returns the record of status valid.
C13_PackThenVerifyIsValid ==
    VerifiedAfterPack => LastCall.outcome = Returned(valid_verdict)

C13_Witness ==
    /\ VerifiedAfterPack
    /\ Len(calls) = 2
    /\ fs[trace_path] = Some(JsonFile(JDict(JMeta(JStr(<<"r">>), JAbsent))))

\* verify has just been called on a packed archive one entry of which was
\* changed after packing.
VerifiedAfterEdit == pc = "bundle_verified" /\ entry_edit # None

\* The content-hash mismatch verify reports for the entry of that name.
hash_mismatch(name) ==
    Raised("DVCBundleError",
           <<(IF name = arcname(program_path) THEN "Program file SHA256 mismatch: "
              ELSE IF name = arcname(trace_path) THEN "Trace file SHA256 mismatch: "
              ELSE "Asset file SHA256 mismatch: "), name>>)

\* C14: in an archive produced by pack, changing the content of an embedded
\* entry (program, trace, image or palette) makes verify fail with the
\* content-hash mismatch of that entry.
C14_EditedEntryIsAHashMismatch ==
    VerifiedAfterEdit => LastCall.outcome = hash_mismatch(entry_edit[1])

C14_Witness ==
    /\ VerifiedAfterEdit
    /\ entry_edit = Some(arcname(program_path))
    /\ fs[trace_path] = Some(JsonFile(JDict(JMeta(JStr(<<"r">>), JAbsent))))

\* Two calls of pack have returned, each having written its own target from
\* the same four input files, and the archives are as pack left them.
PackedTwice ==
    /\ entry_edit = None
    /\ \E j, k \in 1..Len(calls) :
           /\ j < k
           /\ calls[j].op = "pack" /\ IsReturned(calls[j])
           /\ calls[k].op = "pack" /\ IsReturned(calls[k])

\* C15: packing the same four input files twice, to two output paths at two
\* times, yields two archives of identical bytes.
C15_PackIsDeterministic ==
    PackedTwice => fs["out/a.dvcf"] = fs["out/b.dvcf"]

C15_Witness ==
    /\ PackedTwice
    /\ Len(calls) = 2
    /\ fs["out/a.dvcf"] # None /\ fs["out/b.dvcf"] # None

already_exists(path) ==
    Raised("DVCBundleError", <<"Output bundle already exists: ", path>>)

\* C16: a call of pack whose output path already exists fails with the
\* archive error "already exists" and leaves every file as it was: the
\* existing file is unchanged and no temporary manifest is created.
C16_PackRefusesToOverwrite ==
    [][(/\ Len(calls') = Len(calls) + 1
        /\ calls'[Len(calls')].op = "pack"
        /\ fs[calls'[Len(calls')].path] # None)
       => (/\ calls'[Len(calls')].outcome = already_exists(calls'[Len(calls')].path)
           /\ fs' = fs)]_vars

C16_Witness ==
    /\ Len(calls) = 2
    /\ calls[1].op = "pack" /\ IsReturned(calls[1])
    /\ calls[2] = Call("pack", calls[1].path, already_exists(calls[1].path))
    /\ fs[temp_manifest_path] = None

\* The last call was a pack that went past the writing of the temporary
\* manifest: it returned, or it raised while writing the archive.
PackCreatedTemp ==
    /\ calls # <<>>
    /\ LastCall.op = "pack"
    /\ \/ IsReturned(LastCall)
       \/ LastCall.outcome = Raised("OSError", <<LastCall.path>>)

\* C17: whenever pack returns or raises after having created the temporary
\* manifest, that file no longer exists.
C17_TempManifestIsDeleted ==
    PackCreatedTemp => fs[temp_manifest_path] = None

C17_Witness ==
    /\ PackCreatedTemp
    /\ Len(calls) = 1
    /\ ~IsReturned(LastCall)

\* --------------------------------------------------- dvc run (cmd_run)
\* A program file holds no JSON text, or a JSON document; an instruction
\* object of a JSON array is a dict with the keys op and arg, either of which
\* may be missing.

JInstr(op, arg) == [t |-> "dict", op |-> op, arg |-> arg]

InstructionObjects ==
    {JInstr(JStr(<<"PUSHI">>), JStr(<<"2">>)),
     JInstr(JStr(<<"PUSHI">>), JInt(0)),
     JInstr(JStr(<<"PUSHI">>), JAbsent),
     JInstr(JStr(<<"DIV">>), JAbsent),
     JInstr(JStr(<<"PRINT">>), JNull),
     JInstr(JStr(<<"HALT">>), JAbsent),
     JInstr(JStr(<<"NOP">>), JStr(<<"2">>)),
     JInstr(JStr(<<"FOO">>), JAbsent),
     JInstr(JAbsent, JAbsent),
     JInt(1)}

ProgramFiles ==
    {None, Some(Bytes("{")), Some(JsonFile(JDict(JAbsent)))}
        \cup {Some(JsonFile(JList(l))) : l \in SeqsUpTo(InstructionObjects, MaxEditedLen)}

\* str(x) of a JSON string or int
py_str(x) == IF x.t = "int" THEN str(x.n) ELSE x.s

\* The Instruction from_json_array builds of one object: op = str(obj["op"]),
\* arg = str(obj.get("arg")) unless that is None.
instruction_of(obj) ==
    Instruction(obj.op.s[1],
                IF get(obj.arg) = JNull THEN None ELSE Some(py_str(obj.arg)))

is_instruction_object(obj) == obj.t = "dict" /\ obj.op # JAbsent

\* Program.from_json_array: the Program, or the ValueError of the first
\* object that is refused.
from_json_array(arr) ==
    LET refused == {k \in 1..Len(arr) :
                       \/ ~is_instruction_object(arr[k])
                       \/ ~validate_instruction(instruction_of(arr[k]))}
    IN  IF refused = {} THEN Returned([k \in 1..Len(arr) |-> instruction_of(arr[k])])
        ELSE LET k == CHOOSE r \in refused : \A q \in refused : r <= q
             IN  IF ~is_instruction_object(arr[k])
                 THEN Raised("ValueError", <<"Invalid instruction at index ", k - 1>>)
                 ELSE Raised("ValueError", <<"validate_instruction", arr[k]>>)

\* load_program_json on the file at args.program
load_program_json(file) ==
    IF file = None THEN Raised("FileNotFoundError", <<"No such file or directory">>)
    ELSE IF file[1].t # "json" THEN Raised("JSONDecodeError", <<>>)
    ELSE IF file[1].doc.t # "list" THEN
        Raised("ValueError", <<"Program JSON must be an array of instruction objects">>)
    ELSE from_json_array(file[1].doc.l)

\* _print_json({"error": str(e)})
error_printed(e) == [error |-> e]

\* The end of cmd_run's try block once the trace file is written: the
\* summary printed and the code returned. meta has the keys halted and
\* faulted and no key fault: trace["meta"]["fault"] raises KeyError, which
\* the except clause prints and turns into 1.
summary_and_code(tr, steps_run) ==
    IF tr.meta.halted.b THEN
        [stdout |-> [status |-> "halted",
                     steps |-> steps_run,
                     outputs |-> tr.meta.outputs,
                     final_root |-> tr.meta.final_root,
                     trace_path |-> "args.trace"],
         code |-> IF ~tr.meta.faulted.b THEN 0
                  ELSE IF tr.meta.faulted.b THEN 2 ELSE 0]
    ELSE [stdout |-> error_printed(<<"'fault'">>), code |-> 1]

\* dvc run is started on a program file, with --format json.
InitRun ==
    /\ program = <<>>
    /\ step_limit \in 1..MaxStepLimit
    /\ deterministic_meta = TRUE
    /\ started_at = EPOCH
    /\ state = VMState(0, <<>>, <<>>, "running")
    /\ steps = <<>>
    /\ prev = ZERO_HASH
    /\ i = 0
    /\ faulted = FALSE
    /\ pc = "cmd_run"
    /\ trace = None
    /\ strict = FALSE
    /\ verdict = None
    /\ original = None
    /\ edit = None
    /\ forged = FALSE
    /\ DivIdle
    /\ earlier = None
    /\ BundleIdle
    /\ program_file \in ProgramFiles
    /\ trace_file = None
    /\ stdout = None
    /\ exit_code = None
    /\ DamageIdle
    /\ ColorIdle
    /\ CodecIdle

\* cmd_run up to the call of execute: the program is loaded, or the
\* exception of the loader is printed and 1 returned.
CmdRunLoad ==
    /\ pc = "cmd_run"
    /\ LET loaded == load_program_json(program_file)
       IN  IF "returned" \in DOMAIN loaded
           THEN /\ program' = loaded.returned
                /\ pc' = "loop"
                /\ UNCHANGED <<stdout, exit_code>>
           ELSE /\ stdout' = Some(error_printed(loaded.raised))
                /\ exit_code' = Some(1)
                /\ pc' = "exited"
                /\ UNCHANGED program
    /\ UNCHANGED <<step_limit, deterministic_meta, started_at, state, steps, prev, i,
                   faulted, trace, strict, verdict, editVars, divVars, earlier,
                   bundleVars, program_file, trace_file, damageVars,
                   colorVars, codecVars>>

\* cmd_run after execute returned: the trace file is written, then the
\* summary is built and printed and the code returned.
CmdRunFinish ==
    /\ pc = "returned"
    /\ exit_code = None
    /\ trace_file' = trace
    /\ LET r == summary_and_code(trace[1], Len(trace[1].steps))
       IN  /\ stdout' = Some(r.stdout)
           /\ exit_code' = Some(r.code)
    /\ pc' = "exited"
    /\ UNCHANGED <<execVars, trace, strict, verdict, editVars, divVars, earlier,
                   bundleVars, program_file, damageVars,
                   colorVars, codecVars>>

NextRun == CmdRunLoad \/ Dispatch \/ Return \/ CmdRunFinish

SpecRun == InitRun /\ [][NextRun]_vars

\* C18: dvc run returns 0 when the trace is halted without fault, returns 2
\* when the VM faulted, the trace file being written and the summary printed
\* having status "faulted", and returns 1 when the program file is missing,
\* is no JSON or fails validation.
C18_RunExitCodes ==
    pc = "exited" =>
        /\ "raised" \in DOMAIN load_program_json(program_file) => exit_code = Some(1)
        /\ (trace # None /\ trace[1].meta.halted.b /\ ~trace[1].meta.faulted.b)
               => exit_code = Some(0)
        /\ (trace # None /\ trace[1].meta.faulted.b)
               => /\ exit_code = Some(2)
                  /\ trace_file = trace
                  /\ "status" \in DOMAIN stdout[1] /\ stdout[1].status = "faulted"

C18_Witness ==
    /\ pc = "exited"
    /\ trace # None
    /\ trace[1].meta.faulted.b
    /\ trace_file = trace

\* ------------------------------------- trace files with several defects
\* The trace file execute wrote is damaged up to MaxDefects times, then
\* handed to verify_trace: a trace can fail several checks at once.

\* The keys of a step an editor deletes.
DeletedKeys == {"index", "ip", "op", "stack_before", "stack_after", "step_hash"}

\* A color_provenance dict without compiler_version.
incomplete_provenance ==
    [t |-> "dict",
     d |-> [palette_hash |-> JStr(<<"p">>), compiler_version |-> JAbsent,
            tile_size |-> JInt(16), grid_size |-> JAbsent,
            compilation_summary |-> JAbsent]]

Defect(kind, k, key) == [kind |-> kind, k |-> k, key |-> key]

\* The trace with one defect more.
damaged(tr, defect) ==
    IF defect.kind = "final_root" THEN [tr EXCEPT !.meta.final_root = JHex([ffs |-> 32])]
    ELSE IF defect.kind = "key" THEN [tr EXCEPT !.steps[defect.k][defect.key] = JAbsent]
    ELSE IF defect.kind = "hash" THEN [tr EXCEPT !.steps[defect.k].step_hash = JHex([ffs |-> 32])]
    ELSE IF defect.kind = "outputs" THEN [tr EXCEPT !.meta.outputs = JList(<<JStr(<<"7">>)>>)]
    ELSE IF defect.kind = "provenance" THEN
        [tr EXCEPT !.meta.color_provenance = incomplete_provenance]
    ELSE resealed(tr, [tr.steps EXCEPT ![defect.k].index = JInt(7)])

Defects(tr) ==
    {Defect(kind, 0, "") : kind \in {"final_root", "outputs", "provenance"}}
        \cup {Defect("key", k, key) : k \in 1..Len(tr.steps), key \in DeletedKeys}
        \cup {Defect(kind, k, "") : kind \in {"hash", "index"}, k \in 1..Len(tr.steps)}

Damage ==
    /\ pc = "returned"
    /\ Len(defects) < MaxDefects
    /\ \E defect \in Defects(trace[1]) :
           /\ damaged(trace[1], defect) # trace[1]
           /\ trace' = Some(damaged(trace[1], defect))
           /\ defects' = Append(defects, defect)
    /\ UNCHANGED <<execVars, pc, strict, verdict, editVars, divVars, earlier, bundleVars,
                   cliVars, decoded, verify_outcome,
                   colorVars, codecVars>>

NextSeveral == Dispatch \/ Return \/ Damage \/ Verify

SpecSeveral == InitEdited /\ [][NextSeveral]_vars

\* The checks of a trace, each taken by itself.
Check(check, at) == [check |-> check, at |-> at]

FinalRootFails(tr) ==
    ~PyEq(get(tr.meta.final_root),
          IF tr.steps = <<>> THEN JHex(ZERO_HASH)
          ELSE get_or(tr.steps[Len(tr.steps)].step_hash, JStr(<<>>)))

KeysFail(tr, k) ==
    \E key \in {"index", "ip", "op", "stack_before", "stack_after", "step_hash"} :
        tr.steps[k][key] = JAbsent

\* The hash of step k is not the hash of its fields chained to the hash the
\* step before it carries.
HashFails(tr, k) ==
    LET before == IF k = 1 THEN JHex(ZERO_HASH) ELSE tr.steps[k - 1].step_hash
    IN  \/ "hex" \notin DOMAIN before
        \/ ~PyEq(JHex(step_hash(verifier_step_dict(tr.steps[k]), before.hex)),
                 get_or(tr.steps[k].step_hash, JStr(<<>>)))

OutputsFail(tr) ==
    ~PyEq(JList(step_outputs(tr.steps)), get_or(tr.meta.outputs, JList(<<>>)))

ProvenanceFails(tr) ==
    /\ truthy(get(tr.meta.color_provenance))
    /\ provenance_check(tr.meta.color_provenance) # None

StrictFails(tr, strict_mode) == strict_mode /\ strict_check(tr.steps) # None

\* The check the verdict reports as failed.
Reported(v) ==
    IF v.error = None THEN Check("none", -1)
    ELSE LET message == v.error[1].error[1]
             at == v.error[1].at
         IN  IF message = "final_root does not match last step hash" THEN Check("final_root", at)
             ELSE IF message = "missing field " THEN Check("keys", at)
             ELSE IF message = "hash chain broken at step" THEN Check("hash", at)
             ELSE IF message = "metadata outputs do not match step outputs" THEN Check("outputs", at)
             ELSE IF message \in {"step index mismatch at position",
                                  "stack discontinuity between steps"} THEN Check("strict", -1)
             ELSE Check("provenance", at)

\* The first check that fails when the steps are taken one after the other,
\* the keys of a step and then its hash.
FirstFailing(tr, strict_mode) ==
    LET bad == {k \in 1..Len(tr.steps) : KeysFail(tr, k) \/ HashFails(tr, k)}
        k == CHOOSE b \in bad : \A j \in bad : b <= j
    IN  IF FinalRootFails(tr) THEN Check("final_root", -1)
        ELSE IF bad # {} THEN Check(IF KeysFail(tr, k) THEN "keys" ELSE "hash", k - 1)
        ELSE IF OutputsFail(tr) THEN Check("outputs", -1)
        ELSE IF ProvenanceFails(tr) THEN Check("provenance", -1)
        ELSE IF StrictFails(tr, strict_mode) THEN Check("strict", -1)
        ELSE Check("none", -1)

\* The first check that fails when the keys of every step are checked before
\* any hash.
FirstFailingKind(tr, strict_mode) ==
    IF FinalRootFails(tr) THEN "final_root"
    ELSE IF \E k \in 1..Len(tr.steps) : KeysFail(tr, k) THEN "keys"
    ELSE IF \E k \in 1..Len(tr.steps) : HashFails(tr, k) THEN "hash"
    ELSE IF OutputsFail(tr) THEN "outputs"
    ELSE IF ProvenanceFails(tr) THEN "provenance"
    ELSE IF StrictFails(tr, strict_mode) THEN "strict"
    ELSE "none"

\* C19 as amended: verify_trace reports the first failure in the order
\* final root, then for each step in trace order its required keys and its
\* hash, then outputs, provenance and the strict-mode checks.
C19_ChecksStepByStep ==
    pc = "verified" => Reported(verdict[1]) = FirstFailing(trace[1], strict)

\* a trace that fails the hash check at one step and lacks a key at a later one
C19_Witness ==
    /\ pc = "verified"
    /\ Len(defects) = 2
    /\ Len(trace[1].steps) = 2
    /\ Reported(verdict[1]) = Check("hash", 0)
    /\ KeysFail(trace[1], 2)

\* C19: verify_trace reports the failure of the earliest check in the order
\* final root, required fields of every step, hash chain, outputs,
\* provenance, strict mode.
C19_ChecksInListedOrder ==
    pc = "verified" => Reported(verdict[1]).check = FirstFailingKind(trace[1], strict)

\* ------------------------------ verify_trace on any decoded JSON value
\* json.load gives verify_trace whatever the file holds: the trace may be a
\* list, meta and steps may be missing or be no dict and no list, and a step
\* may be no dict. A dict is JObj(d), d holding the keys.

JObj(d) == [t |-> "dict", d |-> d]

JTrace(meta, tsteps) == [t |-> "dict", meta |-> meta, steps |-> tsteps]

\* the decoded file execute's trace was written to
decode(tr) == JTrace(JObj(tr.meta), JList([k \in 1..Len(tr.steps) |-> JObj(tr.steps[k])]))

\* {} read as a meta
empty_meta ==
    [version |-> JAbsent, step_limit |-> JAbsent, halted |-> JAbsent, faulted |-> JAbsent,
     outputs |-> JAbsent, final_root |-> JAbsent, started_at |-> JAbsent,
     finished_at |-> JAbsent, color_provenance |-> JAbsent]

\* the record verify_trace returns on a failure
invalid_verdict(failure, final_root, count, meta) ==
    [status |-> "invalid",
     valid |-> FALSE,
     error |-> Some(failure),
     final_root |-> final_root,
     steps |-> count,
     faulted |-> truthy(get_or(meta.faulted, JBool(FALSE))),
     halted |-> truthy(get_or(meta.halted, JBool(FALSE)))]

strict_messages == {"step index mismatch at position", "stack discontinuity between steps"}

\* verify_trace from the provenance check on, for a meta that is a dict and
\* steps that are dicts: a truthy color_provenance that is no dict is
\* searched with "field not in color_provenance", which finds nothing in a
\* str or a list and raises TypeError on an int or a bool.
verify_dicts(tr, strict_mode) ==
    LET cp == get(tr.meta.color_provenance)
        without == verify_trace([tr EXCEPT !.meta.color_provenance = JAbsent], strict_mode)
    IN  IF ~truthy(cp) \/ cp.t = "dict" THEN Returned(verify_trace(tr, strict_mode))
        ELSE IF without.error # None /\ without.error[1].error[1] \notin strict_messages
        THEN Returned(without)
        ELSE IF cp.t \in {"str", "list"} THEN
            Returned(invalid_verdict(
                Failure(<<"color_provenance missing required field: ", "palette_hash">>, -1),
                without.final_root, Len(tr.steps), tr.meta))
        ELSE Raised("TypeError", <<"argument of type 'int' is not iterable">>)

\* verify_trace on a list of steps one of which is no dict, the last one
\* and meta being dicts.
verify_odd_steps(meta, l, strict_mode) ==
    LET odd == {k \in 1..Len(l) : l[k].t # "dict"}
        k == CHOOSE o \in odd : \A j \in odd : o <= j
        expected_final == get_or(l[Len(l)].d.step_hash, JStr(<<>>))
        before == chain_check([j \in 1..(k - 1) |-> l[j].d], 1, ZERO_HASH)
    IN  IF ~PyEq(get(meta.final_root), expected_final) THEN
            Returned(invalid_verdict(
                Failure(<<"final_root does not match last step hash">>, -1),
                get_or(meta.final_root, JStr(<<>>)), Len(l), meta))
        ELSE IF before # None THEN
            Returned(invalid_verdict(before[1], expected_final, Len(l), meta))
        ELSE IF l[k].t \in {"str", "list"} THEN
            Returned(invalid_verdict(Failure(<<"missing field ", "index", " at step">>, k - 1),
                                     expected_final, Len(l), meta))
        ELSE Raised("TypeError", <<"argument of type 'int' is not iterable">>)

\* verify_trace(trace, strict) for a decoded JSON value: the verdict it
\* returns, or the exception it raises.
verify_trace_call(v, strict_mode) ==
    IF v.t # "dict" THEN
        Raised("AttributeError", <<"'list' object has no attribute 'get'">>)
    ELSE
    LET meta == get_or(v.meta, JObj(empty_meta))
        tsteps == get_or(v.steps, JList(<<>>))
    IN  IF ~truthy(tsteps) THEN
            \* expected_final = ZERO_HASH
            IF meta.t # "dict" THEN
                Raised("AttributeError", <<"object has no attribute 'get'">>)
            ELSE IF tsteps.t = "list" THEN
                verify_dicts([meta |-> meta.d, steps |-> <<>>], strict_mode)
            ELSE IF ~PyEq(get(meta.d.final_root), JHex(ZERO_HASH)) THEN
                Raised("TypeError", <<"object has no len()">>)
            ELSE Raised("TypeError", <<"object is not iterable">>)
        ELSE IF tsteps.t # "list" THEN
            \* steps[-1] of an int, steps[-1].get of a character
            IF tsteps.t = "str"
            THEN Raised("AttributeError", <<"'str' object has no attribute 'get'">>)
            ELSE Raised("TypeError", <<"'int' object is not subscriptable">>)
        ELSE IF tsteps.l[Len(tsteps.l)].t # "dict" THEN
            Raised("AttributeError", <<"object has no attribute 'get'">>)
        ELSE IF meta.t # "dict" THEN
            Raised("AttributeError", <<"object has no attribute 'get'">>)
        ELSE IF \E k \in 1..Len(tsteps.l) : tsteps.l[k].t # "dict" THEN
            verify_odd_steps(meta.d, tsteps.l, strict_mode)
        ELSE verify_dicts([meta |-> meta.d,
                           steps |-> [k \in 1..Len(tsteps.l) |-> tsteps.l[k].d]],
                          strict_mode)

\* The JSON value handed to verify_trace: the decoded trace file, as execute
\* wrote it or as disfigured since.
handed == IF decoded = None THEN decode(trace[1]) ELSE decoded[1]

\* The value with one structural defect more.
disfigured(v, defect) ==
    IF defect.kind = "trace" THEN JList(<<>>)
    ELSE IF defect.kind = "meta" THEN [v EXCEPT !.meta = defect.value]
    ELSE IF defect.kind = "steps" THEN [v EXCEPT !.steps = defect.value]
    ELSE IF defect.kind = "step" THEN [v EXCEPT !.steps.l[defect.k] = defect.value]
    ELSE IF defect.kind = "step_hash" THEN [v EXCEPT !.steps.l[defect.k].d.step_hash = JAbsent]
    ELSE [v EXCEPT !.meta.d.color_provenance = defect.value]

Disfigurement(kind, k, value) == [kind |-> kind, k |-> k, value |-> value]

\* The structural defects the value can still take.
Disfigurements(v) ==
    IF v.t # "dict" THEN {}
    ELSE {Disfigurement("trace", 0, JNull)}
        \cup {Disfigurement("meta", 0, x) : x \in {JAbsent, JNull, JList(<<>>)}}
        \cup {Disfigurement("steps", 0, x) : x \in {JAbsent, JNull, JInt(1)}}
        \cup (IF v.steps.t # "list" THEN {}
              ELSE {Disfigurement("step", k, x) :
                        k \in 1..Len(v.steps.l), x \in {JInt(1), JStr(<<"x">>), JNull}}
                   \cup {Disfigurement("step_hash", k, JNull) :
                            k \in {j \in 1..Len(v.steps.l) : v.steps.l[j].t = "dict"}})
        \cup (IF v.meta.t # "dict" THEN {}
              ELSE {Disfigurement("color_provenance", 0, x) :
                        x \in {JInt(5), JStr(<<"x">>), JBool(TRUE)}})

Disfigure ==
    /\ pc = "returned"
    /\ Len(defects) < MaxDefects
    /\ \E defect \in Disfigurements(handed) :
           /\ disfigured(handed, defect) # handed
           /\ decoded' = Some(disfigured(handed, defect))
           /\ defects' = Append(defects, defect)
    /\ UNCHANGED <<execVars, pc, trace, strict, verdict, editVars, divVars, earlier,
                   bundleVars, cliVars, verify_outcome,
                   colorVars, codecVars>>

\* A caller hands the decoded file to verify_trace.
VerifyDecoded ==
    /\ pc = "returned"
    /\ \E strict_mode \in BOOLEAN :
           /\ strict' = strict_mode
           /\ verify_outcome' = Some(verify_trace_call(handed, strict_mode))
    /\ decoded' = Some(handed)
    /\ pc' = "verified"
    /\ UNCHANGED <<execVars, trace, verdict, editVars, divVars, earlier, bundleVars,
                   cliVars, defects,
                   colorVars, codecVars>>

NextDecoded == Dispatch \/ Return \/ Disfigure \/ VerifyDecoded

SpecDecoded == InitEdited /\ [][NextDecoded]_vars

\* verify_trace was called on a structurally invalid value.
VerifiedDisfigured == pc = "verified" /\ verify_outcome # None /\ defects # <<>>

\* C20: on a structurally invalid trace (meta or steps missing or of the
\* wrong type, a step that is no object or has no step_hash, color_provenance
\* of the wrong type) verify_trace raises no exception: it returns a verdict
\* record, with a reason when the status is invalid. (That the status is
\* invalid is left out: a missing steps key reads as the empty list, which
\* is what a trace without steps holds.)
C20_VerifyNeverThrows ==
    VerifiedDisfigured =>
        /\ "returned" \in DOMAIN verify_outcome[1]
        /\ verify_outcome[1].returned.status = "invalid"
               => verify_outcome[1].returned.error # None

C20_Witness ==
    /\ VerifiedDisfigured
    /\ defects = <<Disfigurement("meta", 0, JNull)>>
    /\ Len(trace[1].steps) = 2

\* ------------------------------------- traces with a color_provenance block
\* The trace execute returned is given a meta.color_provenance, as the trace
\* of a compiled image has one; the steps and their hashes stay as they are
\* (meta is not hashed).

JGrid(width, height) == JObj([width |-> width, height |-> height])

JSummary(tiles_processed, instructions_generated) ==
    JObj([tiles_processed |-> tiles_processed,
          instructions_generated |-> instructions_generated])

JProvenance(palette_hash, compiler_version, tile_size, grid_size, compilation_summary) ==
    JObj([palette_hash |-> palette_hash,
          compiler_version |-> compiler_version,
          tile_size |-> tile_size,
          grid_size |-> grid_size,
          compilation_summary |-> compilation_summary])

\* the block cmd_color_run writes for a 1x2 grid of 16-pixel tiles
sound_provenance ==
    JProvenance(JStr(<<"p">>), JStr(<<"ColorCompiler-v0.1">>), JInt(16),
                JGrid(JInt(1), JInt(2)), JSummary(JInt(2), JInt(2)))

\* {}
empty_provenance == JProvenance(JAbsent, JAbsent, JAbsent, JAbsent, JAbsent)

\* The values a JSON file can give a string field and a number field.
StringFieldValues == {JStr(<<"p">>), JStr(<<>>), JInt(1), JNull, JAbsent}

NumberFieldValues == {JInt(2), JInt(0), JInt(-1), JBool(TRUE), JBool(FALSE),
                      JStr(<<"2">>), JNull, JAbsent}

\* The blocks: the sound one, the empty one, and the sound one with another
\* value for one field.
ProvenanceBlocks ==
    LET s == sound_provenance.d
    IN  {sound_provenance, empty_provenance}
        \cup {JProvenance(x, s.compiler_version, s.tile_size, s.grid_size,
                          s.compilation_summary) : x \in StringFieldValues}
        \cup {JProvenance(s.palette_hash, x, s.tile_size, s.grid_size,
                          s.compilation_summary) : x \in StringFieldValues}
        \cup {JProvenance(s.palette_hash, s.compiler_version, x, s.grid_size,
                          s.compilation_summary) : x \in NumberFieldValues}
        \cup {JProvenance(s.palette_hash, s.compiler_version, s.tile_size, g,
                          s.compilation_summary) :
                g \in {JGrid(x, JInt(2)) : x \in NumberFieldValues}
                        \cup {JGrid(JInt(1), x) : x \in NumberFieldValues}
                        \cup {JNull, JAbsent, JStr(<<"1x2">>)}}
        \cup {JProvenance(s.palette_hash, s.compiler_version, s.tile_size, s.grid_size, c) :
                c \in {JSummary(x, JInt(0)) : x \in NumberFieldValues}
                        \cup {JSummary(JInt(2), x) : x \in NumberFieldValues}
                        \cup {JNull, JAbsent, JList(<<>>)}}

\* trace["meta"]["color_provenance"] = block
AttachProvenance ==
    /\ pc = "returned"
    /\ trace[1].meta.color_provenance = JAbsent
    /\ \E block \in ProvenanceBlocks :
           trace' = Some([trace[1] EXCEPT !.meta.color_provenance = block])
    /\ UNCHANGED <<execVars, pc, strict, verdict, editVars>>
    /\ UNCHANGED sideVars

NextProvenance == Dispatch \/ Return \/ AttachProvenance \/ Verify

SpecProvenance == InitEdited /\ [][NextProvenance]_vars

\* a JSON integer, which true and false are not
is_integer(x) == x.t = "int"

non_empty_string(x) == x.t = "str" /\ x.s # <<>>

\* The shape of a provenance block, as the format defines it.
ProvenanceShape(cp) ==
    /\ cp.t = "dict"
    /\ non_empty_string(cp.d.palette_hash)
    /\ non_empty_string(cp.d.compiler_version)
    /\ is_integer(cp.d.tile_size) /\ cp.d.tile_size.n > 0
    /\ cp.d.grid_size.t = "dict"
    /\ is_integer(cp.d.grid_size.d.width) /\ cp.d.grid_size.d.width.n > 0
    /\ is_integer(cp.d.grid_size.d.height) /\ cp.d.grid_size.d.height.n > 0
    /\ cp.d.compilation_summary.t = "dict"
    /\ is_integer(cp.d.compilation_summary.d.tiles_processed)
    /\ cp.d.compilation_summary.d.tiles_processed.n >= 0
    /\ is_integer(cp.d.compilation_summary.d.instructions_generated)
    /\ cp.d.compilation_summary.d.instructions_generated.n >= 0

VerifiedWithProvenance ==
    /\ pc = "verified"
    /\ trace[1].meta.color_provenance # JAbsent

\* C21: when meta.color_provenance is present, verify_trace returns valid
\* only if palette_hash and compiler_version are non-empty strings, tile_size
\* and the two grid dimensions are positive integers and the two counts of
\* compilation_summary are non-negative integers.
C21_ProvenanceShapeChecked ==
    VerifiedWithProvenance /\ verdict[1].status = "valid"
        => ProvenanceShape(trace[1].meta.color_provenance)

C21_Witness ==
    /\ VerifiedWithProvenance
    /\ verdict[1].status = "valid"
    /\ trace[1].meta.color_provenance.d.tile_size = JBool(TRUE)
    /\ Len(trace[1].steps) = 2

\* ------------------------------------------- one trace, both modes
\* A trace written by a producer other than execute is handed to
\* verify_trace twice, once with strict and once without.

\* The producer writes another stack into one step and computes the chain
\* over it.
RewriteStack ==
    /\ pc = "returned"
    /\ edit = None
    /\ ~forged
    /\ \E k \in 1..Len(trace[1].steps) :
       \E field \in {"stack_before", "stack_after"} :
       \E value \in FieldValues(field) :
           /\ value # trace[1].steps[k][field]
           /\ trace' = Some(resealed(trace[1],
                                     [trace[1].steps EXCEPT ![k][field] = value]))
    /\ forged' = TRUE
    /\ UNCHANGED <<execVars, pc, strict, verdict, original, edit>>
    /\ UNCHANGED sideVars

\* The caller hands the same trace to verify_trace again, in the other mode.
VerifyOtherMode ==
    /\ pc = "verified"
    /\ verify_outcome = None
    /\ verify_outcome' = Some(Returned(verify_trace(trace[1], ~strict)))
    /\ UNCHANGED <<execVars, pc, trace, strict, verdict, editVars, divVars, earlier,
                   bundleVars, cliVars, defects, decoded,
                   colorVars, codecVars>>

NextStrict == Dispatch \/ Return \/ Rewrite \/ RewriteStack \/ Verify \/ VerifyOtherMode

SpecStrict == InitEdited /\ [][NextStrict]_vars

VerifiedInBothModes == pc = "verified" /\ verify_outcome # None

\* the verdict of the call with strict, and of the call without
StrictVerdict == IF strict THEN verdict[1] ELSE verify_outcome[1].returned

LenientVerdict == IF strict THEN verify_outcome[1].returned ELSE verdict[1]

\* steps[i].index == i for every i
IndicesCount(tsteps) == \A k \in 1..Len(tsteps) : tsteps[k].index = JInt(k - 1)

\* steps[i].stack_after == steps[i+1].stack_before for every i < N-1
StacksContinue(tsteps) ==
    \A k \in 1..(Len(tsteps) - 1) : tsteps[k].stack_after = tsteps[k + 1].stack_before

\* C22: strict mode adds two checks, made only when strict is requested:
\* a trace valid with strict is valid without, and a trace valid without
\* strict is invalid with strict exactly when some steps[i].index is not i
\* or some steps[i].stack_after is not steps[i+1].stack_before.
C22_StrictAddsTwoChecks ==
    VerifiedInBothModes =>
        /\ StrictVerdict.status = "valid" => LenientVerdict.status = "valid"
        /\ LenientVerdict.status = "valid" =>
               (StrictVerdict.status = "invalid"
                    <=> ~(IndicesCount(trace[1].steps) /\ StacksContinue(trace[1].steps)))

C22_Witness ==
    /\ VerifiedInBothModes
    /\ forged
    /\ Len(trace[1].steps) = 2
    /\ trace[1].steps[2].index = JBool(TRUE)
    /\ LenientVerdict.status = "valid"
    /\ StrictVerdict.status = "valid"

\* ------------------------------------------- programs as the lowerer emits them
\* dvc run is started on a program file whose entries are written as
\* ColorLowerer.lower_to_dvc_ir writes them, {"opcode": NAME} with a comment
\* on the NOP of an unrecognized color, or written {"op": NAME}.

LoweredEntry(name, comment) ==
    [t |-> "dict", op |-> JAbsent, arg |-> JAbsent, opcode |-> JStr(<<name>>),
     comment |-> comment]

OpEntry(name, comment) ==
    [t |-> "dict", op |-> JStr(<<name>>), arg |-> JAbsent, opcode |-> JAbsent,
     comment |-> comment]

\* the opcode names of the palette in use
PaletteNames == {"NOP", "HALT", "PRINT", "PUSHI", "RED_OP"}

Unrecognized == JStr(<<"Unrecognized color">>)

LoweredEntries ==
    {LoweredEntry(name, JAbsent) : name \in PaletteNames}
        \cup {LoweredEntry("NOP", Unrecognized)}

OpEntries ==
    {OpEntry(name, JAbsent) : name \in PaletteNames} \cup {OpEntry("NOP", Unrecognized)}

\* the same entry written with the key op
op_spelling(entry) == OpEntry(entry.opcode.s[1], entry.comment)

LoweredFiles ==
    {Some(JsonFile(JList(l))) : l \in SeqsUpTo(LoweredEntries \cup OpEntries, MaxEditedLen)}

InitLowered ==
    /\ program = <<>>
    /\ step_limit = MaxStepLimit
    /\ deterministic_meta = TRUE
    /\ started_at = EPOCH
    /\ state = VMState(0, <<>>, <<>>, "running")
    /\ steps = <<>>
    /\ prev = ZERO_HASH
    /\ i = 0
    /\ faulted = FALSE
    /\ pc = "cmd_run"
    /\ trace = None
    /\ strict = FALSE
    /\ verdict = None
    /\ original = None
    /\ edit = None
    /\ forged = FALSE
    /\ DivIdle
    /\ earlier = None
    /\ BundleIdle
    /\ program_file \in LoweredFiles
    /\ trace_file = None
    /\ stdout = None
    /\ exit_code = None
    /\ DamageIdle
    /\ ColorIdle
    /\ CodecIdle

SpecLowered == InitLowered /\ [][NextRun]_vars

\* The file is an array of one entry or more, each written {"opcode": NAME}.
IsLowered(file) ==
    /\ file[1].doc.l # <<>>
    /\ \A k \in 1..Len(file[1].doc.l) : file[1].doc.l[k].opcode # JAbsent

\* the same array written with {"op": NAME}
OpSpelling(file) ==
    Some(JsonFile(JList([k \in 1..Len(file[1].doc.l) |-> op_spelling(file[1].doc.l[k])])))

\* cmd_run went past the loading of the program.
LoadReturned == pc \in {"loop", "returned"} \/ (pc = "exited" /\ trace # None)

\* C23: a program array whose entries are written {"opcode": NAME} loads
\* successfully and yields the instruction list of the same array written
\* with {"op": NAME} (where that one loads).
C23_LoweredVariantLoads ==
    (pc # "cmd_run" /\ IsLowered(program_file)
        /\ "returned" \in DOMAIN load_program_json(OpSpelling(program_file)))
        => /\ LoadReturned
           /\ program = load_program_json(OpSpelling(program_file)).returned

C23_Witness ==
    /\ pc = "exited"
    /\ program_file = Some(JsonFile(JList(<<LoweredEntry("RED_OP", JAbsent),
                                            LoweredEntry("NOP", Unrecognized)>>)))
    /\ exit_code = Some(1)
    /\ stdout = Some(error_printed("ValueError"))
    /\ load_program_json(program_file) =
           Raised("ValueError", <<"Invalid instruction at index ", 0>>)

\* --------------------------------------------------- claims on validation

\* The entry carries an immediate: a key arg that is not null.
has_immediate(entry) == present(entry.arg)

\* An entry validation has to refuse.
InvalidEntry(entry) ==
    \/ entry.t # "dict"
    \/ entry.op = JAbsent
    \/ entry.op.s[1] \notin OPCODES
    \/ entry.op.s[1] = "PUSHI" /\ ~has_immediate(entry)
    \/ entry.op.s[1] # "PUSHI" /\ has_immediate(entry)

\* A JSON document that is no array, or an array with an invalid entry.
InvalidProgram(doc) ==
    \/ doc.t # "list"
    \/ \E k \in 1..Len(doc.l) : InvalidEntry(doc.l[k])

LoadedDocument == program_file # None /\ program_file[1].t = "json" /\ pc # "cmd_run"

\* C24: validation fails with an invalid-instruction error (ValueError) and
\* returns no program when the document is no array or an entry is no
\* object with an op key, has an unknown opcode, is a PUSHI without
\* immediate or another opcode with one; and in every program it returns
\* PUSHI has an immediate and every other opcode has none.
C24_ValidationRefusesInvalidPrograms ==
    LoadedDocument =>
        /\ InvalidProgram(program_file[1].doc) =>
               /\ pc = "exited"
               /\ stdout = Some(error_printed("ValueError"))
               /\ exit_code = Some(1)
               /\ program = <<>>
               /\ trace = None
        /\ \A k \in 1..Len(program) : (program[k].op = "PUSHI") <=> (program[k].arg # None)

C24_Witness ==
    /\ LoadedDocument
    /\ program_file[1].doc = JList(<<JInstr(JStr(<<"HALT">>), JAbsent),
                                     JInstr(JStr(<<"NOP">>), JStr(<<"2">>))>>)
    /\ pc = "exited"
    /\ stdout = Some(error_printed("ValueError"))
    /\ program = <<>>

\* ------------------------------------------------- color_lang: the palette
\* A str is the sequence of its characters. A number is an int: the default
\* tolerance 5.0 is 5, and a distance is held by its square, which orders
\* distances and compares them with a tolerance as math.sqrt does (the
\* squares are integers below 2^18, whose square roots are distinct floats).

HexUpper == <<"0", "1", "2", "3", "4", "5", "6", "7", "8", "9", "A", "B", "C", "D", "E", "F">>

HexLower == <<"0", "1", "2", "3", "4", "5", "6", "7", "8", "9", "a", "b", "c", "d", "e", "f">>

\* the value of a hexadecimal digit of either case, -1 for another character
hex_value(c) ==
    IF \E n \in 1..16 : HexUpper[n] = c THEN (CHOOSE n \in 1..16 : HexUpper[n] = c) - 1
    ELSE IF \E n \in 1..16 : HexLower[n] = c THEN (CHOOSE n \in 1..16 : HexLower[n] = c) - 1
    ELSE -1

\* s without the whitespace around it
stripped(s) ==
    LET inked == {k \in 1..Len(s) : s[k] # " "}
    IN  IF inked = {} THEN <<>>
        ELSE SubSeq(s, CHOOSE k \in inked : \A j \in inked : k <= j,
                       CHOOSE k \in inked : \A j \in inked : k >= j)

\* The digits int(s, 16) reads: what follows the sign and the prefix 0x, an
\* underscore after the prefix dropped.
digits_of(s) ==
    LET t == stripped(s)
        u == IF t # <<>> /\ t[1] \in {"+", "-"} THEN Tail(t) ELSE t
        v == IF Len(u) >= 2 /\ u[1] = "0" /\ u[2] \in {"x", "X"}
             THEN SubSeq(u, 3, Len(u)) ELSE u
        prefixed == v # u
    IN  IF prefixed /\ v # <<>> /\ v[1] = "_" THEN Tail(v) ELSE v

\* int(s, 16) accepts the digits: hexadecimal digits with single underscores
\* between them.
is_base16_literal(v) ==
    /\ v # <<>>
    /\ \A k \in 1..Len(v) : hex_value(v[k]) >= 0 \/ v[k] = "_"
    /\ v[1] # "_" /\ v[Len(v)] # "_"
    /\ \A k \in 1..(Len(v) - 1) : ~(v[k] = "_" /\ v[k + 1] = "_")

RECURSIVE base16_value(_, _)
base16_value(v, acc) ==
    IF v = <<>> THEN acc
    ELSE IF v[1] = "_" THEN base16_value(Tail(v), acc)
    ELSE base16_value(Tail(v), 16 * acc + hex_value(v[1]))

\* int(s, 16)
int16(s) ==
    IF ~is_base16_literal(digits_of(s)) THEN
        Raised("ValueError", <<"invalid literal for int() with base 16: ", s>>)
    ELSE IF stripped(s)[1] = "-" THEN Returned(0 - base16_value(digits_of(s), 0))
    ELSE Returned(base16_value(digits_of(s), 0))

\* f"{r:02X}{g:02X}{b:02X}" of a pixel, whose components are 0..255
rgb_to_hex(c) ==
    <<HexUpper[(c[1] \div 16) + 1], HexUpper[(c[1] % 16) + 1],
      HexUpper[(c[2] \div 16) + 1], HexUpper[(c[2] % 16) + 1],
      HexUpper[(c[3] \div 16) + 1], HexUpper[(c[3] % 16) + 1]>>

\* hex_to_rgb: [r, g, b], or the ValueError of the first int(.., 16) that fails
hex_to_rgb(hex_color) ==
    LET r == int16(SubSeq(hex_color, 1, 2))
        g == int16(SubSeq(hex_color, 3, 4))
        b == int16(SubSeq(hex_color, 5, 6))
    IN  IF "raised" \in DOMAIN r THEN r
        ELSE IF "raised" \in DOMAIN g THEN g
        ELSE IF "raised" \in DOMAIN b THEN b
        ELSE Returned(<<r.returned, g.returned, b.returned>>)

\* _color_distance, squared
color_distance_squared(rgb1, rgb2) ==
    (rgb1[1] - rgb2[1]) * (rgb1[1] - rgb2[1])
        + (rgb1[2] - rgb2[2]) * (rgb1[2] - rgb2[2])
        + (rgb1[3] - rgb2[3]) * (rgb1[3] - rgb2[3])

VALID_OPCODES == {"NOP", "HALT", "PUSHI", "POP", "ADD", "SUB", "MUL", "DIV", "PRINT",
                  "RED_OP", "GREEN_OP", "BLUE_OP", "WHITE_OP"}

\* A JSON object whose keys are kept in the order of the file, as json.load
\* and dict keep them.
JMap(items) == [t |-> "dict", items |-> items]

Item(key, value) == [key |-> key, value |-> value]

\* the decoded palette file
PaletteData(version, tile_size, opcodes, tolerance) ==
    [version |-> version, tile_size |-> tile_size, opcodes |-> opcodes,
     tolerance |-> tolerance]

ColorPalette(version, tile_size, opcodes, tolerance) ==
    [version |-> version, tile_size |-> tile_size, opcodes |-> opcodes,
     tolerance |-> tolerance]

PaletteError(msg) == Raised("PaletteError", msg)

\* The checks from_dict makes of one item of opcodes: None, or what is raised.
item_check(item) ==
    IF Len(item.key) # 6 THEN
        Some(PaletteError(<<"Invalid hex color format (must be 6-character RRGGBB)">>))
    ELSE IF "raised" \in DOMAIN int16(item.key) THEN
        Some(PaletteError(<<"Invalid hex color format (must be valid hexadecimal)">>))
    ELSE IF item.value.t \in {"list", "dict"} THEN
        Some(Raised("TypeError", <<"unhashable type">>))
    ELSE IF item.value.t # "str" \/ item.value.s[1] \notin VALID_OPCODES THEN
        Some(PaletteError(<<"Invalid opcode">>))
    ELSE None

\* ColorPalette.from_dict(data)
from_dict(data) ==
    IF data.version = JAbsent THEN
        PaletteError(<<"Palette missing required 'version' field">>)
    ELSE IF data.version # JStr(<<"palette-v0.1">>) THEN
        PaletteError(<<"Unsupported palette version">>)
    ELSE IF data.tile_size = JAbsent THEN
        PaletteError(<<"Palette missing required 'tile_size' field">>)
    ELSE IF ~isinstance_int(data.tile_size) \/ as_int(data.tile_size) <= 0 THEN
        PaletteError(<<"Invalid tile_size: must be positive integer">>)
    ELSE IF data.opcodes = JAbsent THEN
        PaletteError(<<"Palette missing required 'opcodes' field">>)
    ELSE IF data.opcodes = JMap(<<>>) \/ (data.opcodes.t # "dict" /\ ~truthy(data.opcodes)) THEN
        PaletteError(<<"Palette opcodes cannot be empty">>)
    ELSE IF data.opcodes.t # "dict" THEN
        Raised("AttributeError", <<"object has no attribute 'items'">>)
    ELSE
        LET items == data.opcodes.items
            refused == {k \in 1..Len(items) : item_check(items[k]) # None}
        IN  IF refused # {} THEN
                item_check(items[CHOOSE k \in refused : \A j \in refused : k <= j])[1]
            ELSE Returned(ColorPalette(data.version, data.tile_size, items,
                                       get_or(data.tolerance, JInt(5))))

\* "self.tolerance > 0"
tolerance_is_positive_or_zero(tolerance) == as_int(tolerance) >= 0

tolerance_is_positive(tolerance) == as_int(tolerance) > 0

\* The loop of match_color over the items from position k on, best being the
\* position of best_match (0: None) and best_distance its squared distance.
RECURSIVE best_match_from(_, _, _, _, _)
best_match_from(pal, c, k, best, best_distance) ==
    IF k > Len(pal.opcodes) THEN Returned(best)
    ELSE LET palette_rgb == hex_to_rgb(pal.opcodes[k].key)
         IN  IF "raised" \in DOMAIN palette_rgb THEN palette_rgb
             ELSE IF /\ color_distance_squared(c, palette_rgb.returned)
                            <= as_int(pal.tolerance) * as_int(pal.tolerance)
                     /\ (best = 0 \/ color_distance_squared(c, palette_rgb.returned)
                                        < best_distance)
             THEN best_match_from(pal, c, k + 1, k,
                                  color_distance_squared(c, palette_rgb.returned))
             ELSE best_match_from(pal, c, k + 1, best, best_distance)

\* what the scan of match_color gives: the tuple, or what is raised
scan_result(pal, c, scan) ==
    IF "raised" \in DOMAIN scan THEN scan
    ELSE IF scan.returned # 0 THEN
        Returned(<<pal.opcodes[scan.returned].value.s[1], pal.opcodes[scan.returned].key>>)
    ELSE PaletteError(<<"No matching color within tolerance">>)

\* ColorPalette.match_color(rgb): (opcode, hex_color), or what is raised
match_color(pal, c) ==
    IF \E k \in 1..Len(pal.opcodes) : pal.opcodes[k].key = rgb_to_hex(c) THEN
        Returned(<<pal.opcodes[CHOOSE k \in 1..Len(pal.opcodes) :
                                   pal.opcodes[k].key = rgb_to_hex(c)].value.s[1],
                   rgb_to_hex(c)>>)
    ELSE IF tolerance_is_positive(pal.tolerance) THEN
        scan_result(pal, c, best_match_from(pal, c, 1, 0, 0))
    ELSE PaletteError(<<"No matching color within tolerance">>)

\* The items a palette file declares: colors a step apart, a color in both
\* cases, keys that are no six hexadecimal digits, values that are no opcode.
PaletteItems ==
    {Item(<<"0", "0", "0", "0", "0", "0">>, JStr(<<"NOP">>)),
     Item(<<"0", "2", "0", "0", "0", "0">>, JStr(<<"ADD">>)),
     Item(<<"F", "F", "0", "0", "0", "0">>, JStr(<<"RED_OP">>)),
     Item(<<"f", "f", "0", "0", "0", "0">>, JStr(<<"HALT">>)),
     Item(<<"0", "x", "0", "0", "F", "F">>, JStr(<<"ADD">>)),
     Item(<<"+", "0", "0", "0", "0", "F">>, JStr(<<"ADD">>)),
     Item(<<"G", "G", "G", "G", "G", "G">>, JStr(<<"ADD">>)),
     Item(<<"F", "F", "F">>, JStr(<<"ADD">>)),
     Item(<<"0", "0", "0", "0", "0", "2">>, JStr(<<"JUMP">>)),
     Item(<<"0", "0", "0", "0", "0", "1">>, JList(<<JStr(<<"ADD">>)>>))}

\* The objects of up to MaxKeys of these items, each key once.
OpcodeMaps ==
    {JMap(items) : items \in {l \in SeqsUpTo(PaletteItems, MaxKeys) :
                                 \A j, k \in 1..Len(l) : j # k => l[j].key # l[k].key}}

Tolerances == {JAbsent, JInt(0), JInt(1), JInt(2)}

red_only == JMap(<<Item(<<"F", "F", "0", "0", "0", "0">>, JStr(<<"RED_OP">>))>>)

\* The palette files: one per object and tolerance, and the palette of one
\* red with another version, tile size or opcodes.
PaletteDatas ==
    {PaletteData(JStr(<<"palette-v0.1">>), JInt(16), opcodes, tolerance) :
        opcodes \in OpcodeMaps, tolerance \in Tolerances}
    \cup {PaletteData(version, JInt(16), red_only, JAbsent) :
            version \in {JAbsent, JNull, JInt(1), JStr(<<"palette-v0.2">>)}}
    \cup {PaletteData(JStr(<<"palette-v0.1">>), tile_size, red_only, JAbsent) :
            tile_size \in {JAbsent, JNull, JInt(0), JInt(-1), JInt(1), JBool(TRUE),
                           JBool(FALSE), JStr(<<"16">>)}}
    \cup {PaletteData(JStr(<<"palette-v0.1">>), JInt(16), opcodes, JAbsent) :
            opcodes \in {JAbsent, JNull, JList(<<>>), JList(<<JStr(<<"FF0000">>)>>)}}

\* the pixels handed to match_color
Colors == {<<r, 0, b>> : r \in {0, 1, 2, 255}, b \in {0, 1}}

InitPalette ==
    /\ NoExecution
    /\ pc = "palette"
    /\ DivIdle
    /\ earlier = None
    /\ BundleIdle
    /\ CliIdle
    /\ DamageIdle
    /\ palette_data \in {Some(data) : data \in PaletteDatas}
    /\ palette = None
    /\ rgb = None
    /\ matched = None
    /\ image = None
    /\ decoded_png = None
    /\ dvc_ir = None
    /\ CodecIdle

\* ColorPalette.from_dict is called on the decoded palette file.
FromDict ==
    /\ palette_data # None
    /\ palette = None
    /\ palette' = Some(from_dict(palette_data[1]))
    /\ UNCHANGED <<execVars, pc, trace, strict, verdict, editVars, divVars, earlier,
                   bundleVars, cliVars, damageVars, palette_data, rgb, matched, image,
                   decoded_png, dvc_ir, codecVars>>

IsPalette == palette # None /\ "returned" \in DOMAIN palette[1]

\* match_color is called on the palette from_dict returned.
MatchColor ==
    /\ IsPalette
    /\ pc = "palette"
    /\ matched = None
    /\ \E c \in Colors :
           /\ rgb' = Some(c)
           /\ matched' = Some(match_color(palette[1].returned, c))
    /\ UNCHANGED <<execVars, pc, trace, strict, verdict, editVars, divVars, earlier,
                   bundleVars, cliVars, damageVars, palette_data, palette, image,
                   decoded_png, dvc_ir, codecVars>>

NextPalette == FromDict \/ MatchColor

SpecPalette == InitPalette /\ [][NextPalette]_vars

\* --------------------------------------------------- claims on the palette

\* match_color was called on a palette.
Matched == pc = "palette" /\ matched # None

ThePalette == palette[1].returned

HasExactKey(pal, c) == \E k \in 1..Len(pal.opcodes) : pal.opcodes[k].key = rgb_to_hex(c)

\* the value of a key of six hexadecimal digits, which orders such keys as
\* the strings are ordered
KeyValue(key) == base16_value(key, 0)

IsHexKey(key) == Len(key) = 6 /\ \A k \in 1..6 : hex_value(key[k]) >= 0

\* The entries of the palette within the tolerance of the color.
WithinTolerance(pal, c) ==
    {k \in 1..Len(pal.opcodes) :
        /\ IsHexKey(pal.opcodes[k].key)
        /\ color_distance_squared(c, hex_to_rgb(pal.opcodes[k].key).returned)
               <= as_int(pal.tolerance) * as_int(pal.tolerance)}

\* Of these, the ones at the minimum distance.
Nearest(pal, c) ==
    {k \in WithinTolerance(pal, c) :
        \A j \in WithinTolerance(pal, c) :
            color_distance_squared(c, hex_to_rgb(pal.opcodes[k].key).returned)
                <= color_distance_squared(c, hex_to_rgb(pal.opcodes[j].key).returned)}

\* Of these, the one with the smallest hex key.
SmallestNearest(pal, c) ==
    CHOOSE k \in Nearest(pal, c) :
        \A j \in Nearest(pal, c) : KeyValue(pal.opcodes[k].key) <= KeyValue(pal.opcodes[j].key)

TolerantMatch ==
    /\ Matched
    /\ ~HasExactKey(ThePalette, rgb[1])
    /\ as_int(ThePalette.tolerance) > 0

\* C25: when the color has no exact key in the palette and tolerance > 0,
\* match_color returns the entry at the minimum Euclidean distance among the
\* entries within the tolerance, of several such entries the one with the
\* smallest hex key whatever the order of declaration, and fails with
\* no-matching-color (PaletteError) when no entry is within the tolerance.
C25_ToleranceMatchIsNearestSmallestKey ==
    TolerantMatch =>
        IF WithinTolerance(ThePalette, rgb[1]) = {} THEN
            matched[1] = PaletteError(<<"No matching color within tolerance">>)
        ELSE matched[1] =
                Returned(<<ThePalette.opcodes[SmallestNearest(ThePalette, rgb[1])].value.s[1],
                           ThePalette.opcodes[SmallestNearest(ThePalette, rgb[1])].key>>)

C25_Witness ==
    /\ TolerantMatch
    /\ rgb = Some(<<1, 0, 0>>)
    /\ Len(ThePalette.opcodes) = 2
    /\ ThePalette.opcodes[1].key = <<"0", "2", "0", "0", "0", "0">>
    /\ ThePalette.opcodes[2].key = <<"0", "0", "0", "0", "0", "0">>
    /\ ThePalette.tolerance = JInt(1)
    /\ matched[1] = Returned(<<"ADD", <<"0", "2", "0", "0", "0", "0">>>>)

\* C26: when the color's hex key is a key of the opcode map, match_color
\* returns that entry whatever the tolerance, as it does with tolerance 0;
\* and with tolerance 0 match_color succeeds exactly when the color's hex
\* key is in the map.
C26_ExactMatchIgnoresTolerance ==
    Matched =>
        /\ HasExactKey(ThePalette, rgb[1]) =>
               /\ "returned" \in DOMAIN matched[1]
               /\ matched[1].returned[2] = rgb_to_hex(rgb[1])
               /\ \E k \in 1..Len(ThePalette.opcodes) :
                      /\ ThePalette.opcodes[k].key = rgb_to_hex(rgb[1])
                      /\ ThePalette.opcodes[k].value = JStr(<<matched[1].returned[1]>>)
               /\ matched[1] = match_color([ThePalette EXCEPT !.tolerance = JInt(0)], rgb[1])
        /\ ThePalette.tolerance = JInt(0) =>
               ("returned" \in DOMAIN matched[1] <=> HasExactKey(ThePalette, rgb[1]))

C26_Witness ==
    /\ Matched
    /\ ThePalette.tolerance = JInt(2)
    /\ Len(ThePalette.opcodes) = 2
    /\ rgb = Some(<<255, 0, 0>>)
    /\ matched[1] = Returned(<<"RED_OP", <<"F", "F", "0", "0", "0", "0">>>>)

\* the character in uppercase
upper(c) == IF \E n \in 1..16 : HexLower[n] = c
            THEN HexUpper[CHOOSE n \in 1..16 : HexLower[n] = c] ELSE c

upper_key(key) == [k \in 1..Len(key) |-> upper(key[k])]

IsUpperHexKey(key) == Len(key) = 6 /\ \A k \in 1..6 : \E n \in 1..16 : HexUpper[n] = key[k]

\* C27: after parsing, every key of the palette's opcode map is six
\* uppercase hexadecimal digits, and a color declared with a lowercase key
\* is found by match_color, which returns the uppercase key.
C27_KeysAreStoredInUppercase ==
    /\ IsPalette =>
           \A k \in 1..Len(ThePalette.opcodes) : IsUpperHexKey(ThePalette.opcodes[k].key)
    /\ (Matched /\ \E k \in 1..Len(palette_data[1].opcodes.items) :
                       LET key == palette_data[1].opcodes.items[k].key
                       IN  key # upper_key(key) /\ upper_key(key) = rgb_to_hex(rgb[1]))
           => /\ "returned" \in DOMAIN matched[1]
              /\ matched[1].returned[2] = rgb_to_hex(rgb[1])

C27_Witness ==
    /\ Matched
    /\ palette_data[1].opcodes = JMap(<<Item(<<"f", "f", "0", "0", "0", "0">>, JStr(<<"HALT">>))>>)
    /\ palette_data[1].tolerance = JInt(0)
    /\ rgb = Some(<<255, 0, 0>>)
    /\ matched[1] = PaletteError(<<"No matching color within tolerance">>)

\* One of the enumerated defects of a palette file.
EnumeratedDefect(data) ==
    \/ data.version # JStr(<<"palette-v0.1">>)
    \/ data.tile_size.t # "int"
    \/ data.tile_size.n <= 0
    \/ data.opcodes \in {JAbsent, JMap(<<>>)}
    \/ /\ data.opcodes.t = "dict"
       /\ \E k \in 1..Len(data.opcodes.items) :
              \/ ~IsHexKey(data.opcodes.items[k].key)
              \/ data.opcodes.items[k].value.t # "str"
              \/ data.opcodes.items[k].value.s[1] \notin VALID_OPCODES

\* C28: parsing fails with a palette error and yields no palette when the
\* version is missing or is not palette-v0.1, the tile size is missing, is
\* no integer or is <= 0, the opcode map is missing or empty, a color key
\* is not exactly six hexadecimal digits, or an opcode value is outside the
\* fixed opcode set.
C28_PaletteDefectsAreRefused ==
    (palette # None /\ EnumeratedDefect(palette_data[1]))
        => palette[1] \in {PaletteError(<<msg>>) :
                              msg \in {"Palette missing required 'version' field",
                                       "Unsupported palette version",
                                       "Palette missing required 'tile_size' field",
                                       "Invalid tile_size: must be positive integer",
                                       "Palette missing required 'opcodes' field",
                                       "Palette opcodes cannot be empty",
                                       "Invalid hex color format (must be 6-character RRGGBB)",
                                       "Invalid hex color format (must be valid hexadecimal)",
                                       "Invalid opcode"}}

C28_Witness ==
    /\ IsPalette
    /\ palette_data[1].opcodes = JMap(<<Item(<<"0", "x", "0", "0", "F", "F">>, JStr(<<"ADD">>))>>)
    /\ ThePalette.opcodes[1].key = <<"0", "x", "0", "0", "F", "F">>

\* ------------------------------------- color_lang: the decoder and the lowerer
\* Image.open(path).convert("RGB"): size and the pixel at each (x, y).

RasterImage(width, height, pixels) == [width |-> width, height |-> height, pixels |-> pixels]

\* range(0, n, step)
range_by(n, step) == [k \in 1..((n + step - 1) \div step) |-> (k - 1) * step]

min(a, b) == IF a <= b THEN a ELSE b

\* The tile cropped at (x, y), truncated at the right and bottom edge, with
\* the pixel at its center.
tile_at(img, x, y, tile_size) ==
    LET right == min(x + tile_size, img.width)
        bottom == min(y + tile_size, img.height)
    IN  [x |-> x, y |-> y, width |-> right - x, height |-> bottom - y,
         center_pixel |-> img.pixels[<<x + ((right - x) \div 2), y + ((bottom - y) \div 2)>>]]

\* PngDecoder.extract_tiles_and_sample_centers: rows outer, columns inner
extract_tiles_and_sample_centers(img, tile_size) ==
    LET xs == range_by(img.width, tile_size)
        ys == range_by(img.height, tile_size)
    IN  [tiles |-> [t \in 1..(Len(ys) * Len(xs)) |->
                       tile_at(img, xs[((t - 1) % Len(xs)) + 1],
                               ys[((t - 1) \div Len(xs)) + 1], tile_size)],
         grid_width |-> img.width \div tile_size,
         grid_height |-> img.height \div tile_size]

\* PngDecoder.match_colors_to_opcodes: the opcode, None (JNull) on a
\* PaletteError; any other exception goes on.
match_colors_to_opcodes(outcome) ==
    IF "returned" \in DOMAIN outcome THEN Returned(JStr(<<outcome.returned[1]>>))
    ELSE IF outcome.raised = "PaletteError" THEN Returned(JNull)
    ELSE outcome

\* PngDecoder.decode_png on an image that could be loaded, from what
\* match_colors_to_opcodes gives tile by tile: the first exception, or the
\* opcodes with the grid.
decode_png(opcode_of, grid_width, grid_height) ==
    IF \E t \in 1..Len(opcode_of) : "raised" \in DOMAIN opcode_of[t] THEN
        opcode_of[CHOOSE t \in 1..Len(opcode_of) :
                      /\ "raised" \in DOMAIN opcode_of[t]
                      /\ \A u \in 1..(t - 1) : "returned" \in DOMAIN opcode_of[u]]
    ELSE Returned([opcodes |-> [t \in 1..Len(opcode_of) |-> opcode_of[t].returned],
                   grid_width |-> grid_width,
                   grid_height |-> grid_height])

\* the entry the lowerer emits for one decoded opcode
lowered_entry(opcode) ==
    IF opcode = JNull THEN LoweredEntry("NOP", Unrecognized)
    ELSE LoweredEntry(opcode.s[1], JAbsent)

\* ColorLowerer.lower_to_dvc_ir
lower_to_dvc_ir(decoded_opcodes) ==
    [metadata |-> [compiler |-> "ColorLowerer-v0.1",
                   unrecognized_colors |->
                       Cardinality({k \in 1..Len(decoded_opcodes) : decoded_opcodes[k] = JNull})],
     program |-> [k \in 1..Len(decoded_opcodes) |-> lowered_entry(decoded_opcodes[k])]]

\* compile_png_to_dvc_ir, the metadata it writes over the lowerer's
source_file == "image.png"

with_compiler_metadata(ir, grid) ==
    [metadata |-> [compiler |-> "ColorCompiler-v0.1",
                   unrecognized_colors |-> ir.metadata.unrecognized_colors,
                   source_file |-> source_file,
                   grid_size |-> [width |-> grid.grid_width, height |-> grid.grid_height]],
     program |-> ir.program]

red == <<255, 0, 0>>
nearly_red == <<254, 0, 0>>
nearly_black == <<0, 0, 1>>

Coordinates(width, height) == (0..(width - 1)) \X (0..(height - 1))

\* The images: of one color, or red and nearly black like a chessboard.
Images ==
    {RasterImage(w, h, [xy \in Coordinates(w, h) |-> c]) :
        w \in 1..MaxSide, h \in 1..MaxSide, c \in {red, nearly_red, nearly_black}}
    \cup {RasterImage(w, h, [xy \in Coordinates(w, h) |->
                                IF (xy[1] + xy[2]) % 2 = 0 THEN red ELSE nearly_black]) :
            w \in 1..MaxSide, h \in 1..MaxSide}

\* The palette files of the compiler: red alone, a key from_dict accepts
\* though it is no color, or both; tiles of one or two pixels.
CompilerPalettes ==
    {PaletteData(JStr(<<"palette-v0.1">>), tile_size, JMap(items), tolerance) :
        tile_size \in {JInt(1), JInt(2), JBool(TRUE)},
        tolerance \in {JAbsent, JInt(0)},
        items \in {red_only.items,
                   <<Item(<<"0", "x", "0", "0", "F", "F">>, JStr(<<"ADD">>))>>,
                   red_only.items \o <<Item(<<"0", "x", "0", "0", "F", "F">>, JStr(<<"ADD">>))>>}}

InitCompile ==
    /\ NoExecution
    /\ pc = "compile"
    /\ DivIdle
    /\ earlier = None
    /\ BundleIdle
    /\ CliIdle
    /\ DamageIdle
    /\ palette_data \in {Some(data) : data \in CompilerPalettes}
    /\ palette = None
    /\ rgb = None
    /\ matched = None
    /\ image \in {Some(img) : img \in Images}
    /\ decoded_png = None
    /\ dvc_ir = None
    /\ CodecIdle

\* compile_png_to_dvc_ir up to the lowerer: the image is decoded.
DecodePng ==
    /\ IsPalette
    /\ image # None
    /\ decoded_png = None
    /\ \E extracted \in {extract_tiles_and_sample_centers(image[1], as_int(ThePalette.tile_size))} :
       \E outcomes \in {[t \in 1..Len(extracted.tiles) |->
                            match_color(ThePalette, extracted.tiles[t].center_pixel)]} :
       \E opcode_of \in {[t \in 1..Len(outcomes) |-> match_colors_to_opcodes(outcomes[t])]} :
           decoded_png' = Some(decode_png(opcode_of, extracted.grid_width,
                                          extracted.grid_height))
    /\ UNCHANGED <<execVars, pc, trace, strict, verdict, editVars, divVars, earlier,
                   bundleVars, cliVars, damageVars, palette_data, palette, rgb, matched,
                   image, dvc_ir, codecVars>>

IsDecoded == decoded_png # None /\ "returned" \in DOMAIN decoded_png[1]

\* compile_png_to_dvc_ir from the lowerer on.
Lower ==
    /\ IsDecoded
    /\ dvc_ir = None
    /\ dvc_ir' = Some(with_compiler_metadata(lower_to_dvc_ir(decoded_png[1].returned.opcodes),
                                               decoded_png[1].returned))
    /\ UNCHANGED <<execVars, pc, trace, strict, verdict, editVars, divVars, earlier,
                   bundleVars, cliVars, damageVars, palette_data, palette, rgb, matched,
                   image, decoded_png, codecVars>>

NextCompile == FromDict \/ DecodePng \/ Lower

SpecCompile == InitCompile /\ [][NextCompile]_vars

\* ------------------------------------- claims on the decoder and the lowerer

\* C29: for an image of height H and width W and a tile size T the decoder
\* returns exactly (H // T) * (W // T) opcodes, which is grid_width *
\* grid_height of the grid it returns.
C29_OneOpcodePerWholeTile ==
    IsDecoded =>
        /\ Len(decoded_png[1].returned.opcodes) =
               (image[1].height \div as_int(ThePalette.tile_size))
                   * (image[1].width \div as_int(ThePalette.tile_size))
        /\ Len(decoded_png[1].returned.opcodes) =
               decoded_png[1].returned.grid_width * decoded_png[1].returned.grid_height

C29_Witness ==
    /\ IsDecoded
    /\ image[1].width = 3 /\ image[1].height = 2
    /\ ThePalette.tile_size = JInt(2)
    /\ Len(decoded_png[1].returned.opcodes) = 2
    /\ decoded_png[1].returned.grid_width = 1
    /\ decoded_png[1].returned.grid_height = 1

\* No pixel of the image has a color of the palette or one within its
\* tolerance.
OutsideThePalette(pal, img) ==
    \A xy \in Coordinates(img.width, img.height) :
        /\ ~HasExactKey(pal, img.pixels[xy])
        /\ WithinTolerance(pal, img.pixels[xy]) = {}

\* C30: the program the lowerer emits has one entry per input in the same
\* order, {opcode: NAME} for an opcode and {opcode: NOP, comment:
\* Unrecognized color} for the unrecognized marker, metadata's
\* unrecognized_colors being the number of markers; and an image whose
\* colors are all outside the palette compiles.
C30_LowererKeepsLengthAndOrder ==
    /\ dvc_ir # None =>
        LET ops == decoded_png[1].returned.opcodes
        IN  /\ Len(dvc_ir[1].program) = Len(ops)
            /\ \A k \in 1..Len(ops) :
                   dvc_ir[1].program[k] =
                       IF ops[k] = JNull THEN LoweredEntry("NOP", Unrecognized)
                       ELSE LoweredEntry(ops[k].s[1], JAbsent)
            /\ dvc_ir[1].metadata.unrecognized_colors =
                   Cardinality({k \in 1..Len(ops) : ops[k] = JNull})
    /\ (decoded_png # None /\ OutsideThePalette(ThePalette, image[1])) => IsDecoded

C30_Witness ==
    /\ decoded_png # None
    /\ OutsideThePalette(ThePalette, image[1])
    /\ "raised" \in DOMAIN decoded_png[1]
    /\ decoded_png[1].raised = "ValueError"
    /\ ThePalette.opcodes[1].key = <<"0", "x", "0", "0", "F", "F">>

\* ------------------------------------- claims on the order of execution

\* C32: instructions are executed in program order and steps are emitted in
\* execution order: the step at position k (from 0) of the emitted steps and
\* of the returned trace has index k, ip k and the opcode of instruction k;
\* no instruction is skipped or dispatched twice.
C32_StepsFollowProgramOrder ==
    /\ Len(steps) <= Len(program)
    /\ \A k \in 1..Len(steps) :
           /\ steps[k].index = k - 1
           /\ steps[k].ip = k - 1
           /\ steps[k].op = program[k].op
           /\ steps[k].arg = program[k].arg
    /\ (pc = "returned" /\ edit = None /\ ~forged) =>
           /\ Len(ReturnedTrace.steps) = Len(steps)
           /\ \A k \in 1..Len(ReturnedTrace.steps) :
                  /\ ReturnedTrace.steps[k].index = JInt(k - 1)
                  /\ ReturnedTrace.steps[k].ip = JInt(k - 1)
                  /\ ReturnedTrace.steps[k].op = JStr(<<program[k].op>>)

\* Three different instructions were executed and their steps returned in
\* the order of the program.
C32_Witness ==
    /\ pc = "returned" /\ edit = None /\ ~forged
    /\ Len(ReturnedTrace.steps) = 3
    /\ program[1].op = "PUSHI" /\ program[2].op = "PRINT" /\ program[3].op = "HALT"
    /\ ReturnedTrace.steps[1].op = JStr(<<"PUSHI">>)
    /\ ReturnedTrace.steps[2].op = JStr(<<"PRINT">>)
    /\ ReturnedTrace.steps[3].op = JStr(<<"HALT">>)
    /\ ReturnedTrace.steps[3].ip = JInt(2)

\* ------------------------------------------------ claims on termination

\* execute alone. It is sequential code: the interpreter goes on to the next
\* iteration of the loop and, the condition false, to the statements after
\* it.
NextExecute == Dispatch \/ Return

\* The short programs, and two immediates followed by an addition or by a
\* division by zero: they end by HALT, by a fault, at the step limit and at
\* the end of the program. (The quotient of DIV is taken alone in SpecDiv.)
InitTerminating ==
    /\ Init
    /\ deterministic_meta
    /\ \/ program \in ShortPrograms
       \/ /\ Len(program) = 3
          /\ program[1].op = "PUSHI" /\ program[2].op = "PUSHI"
          /\ \/ program[3].op = "ADD"
             \/ program[3].op = "DIV" /\ program[2].arg = Some(<<"0">>)

SpecTerminating ==
    InitTerminating /\ [][NextExecute]_vars /\ WF_vars(Dispatch) /\ WF_vars(Return)

\* a step was emitted by this transition
Emitted == Len(steps') = Len(steps) + 1

\* C33: execute terminates, after at most min(step_limit, len(program))
\* steps; at every dispatch the status is running and 0 <= ip <
\* len(program); ip never decreases and increases by exactly 1 on every
\* step that does not fault.
C33_ExecuteTerminates ==
    /\ <>(pc = "returned")
    /\ [](Len(steps) = i /\ i <= min(step_limit, Len(program)))
    /\ [][Emitted =>
            /\ state.status = "running"
            /\ 0 <= state.ip /\ state.ip < Len(program)]_vars
    /\ [][state'.ip >= state.ip]_vars
    /\ [][(Emitted /\ steps'[Len(steps')].fault = None) => state'.ip = state.ip + 1]_vars

\* execute returned after as many steps as the program has instructions,
\* with budget left.
C33_Witness ==
    /\ pc = "returned"
    /\ Len(steps) = Len(program)
    /\ Len(program) = 2
    /\ step_limit = 3
    /\ state.ip = 2
    /\ ~faulted

\* ------------------------------------------------------- claims on faults

\* str(e) of the three faults of the VM
FaultStrings ==
    {<<"stack underflow">>, <<"division by zero">>}
        \cup {<<"unknown opcode: ", op>> : op \in OPCODES}

\* C34: the only faults the VM records are stack underflow, division by
\* zero and unknown opcode: in the trace of a validated program every fault
\* string is of these three kinds, and a PUSHI step never carries a fault.
C34_OnlyThreeKindsOfFault ==
    /\ \A k \in 1..Len(steps) :
           steps[k].fault # None =>
               /\ steps[k].fault[1] \in FaultStrings
               /\ steps[k].op # "PUSHI"
    /\ (pc = "returned" /\ edit = None /\ ~forged) =>
           \A k \in 1..Len(ReturnedTrace.steps) :
               HasFault(ReturnedTrace.steps[k]) =>
                   /\ \E f \in FaultStrings : ReturnedTrace.steps[k].fault = JStr(f)
                   /\ ReturnedTrace.steps[k].op # JStr(<<"PUSHI">>)

\* The validated PUSHI "x", dispatched after another step, faulted with the
\* message of int().
C34_Witness ==
    /\ pc = "returned" /\ edit = None /\ ~forged
    /\ Len(program) >= 2
    /\ validate_instruction(program[2])
    /\ program[2] = Instruction("PUSHI", Some(<<"x">>))
    /\ Len(ReturnedTrace.steps) = 2
    /\ ReturnedTrace.steps[2].op = JStr(<<"PUSHI">>)
    /\ ReturnedTrace.steps[2].fault =
           JStr(<<"invalid literal for int() with base 10: '", "x", "'">>)
    /\ ReturnedTrace.meta.faulted = JBool(TRUE)

\* ------------------------------------------- claims on the shape of steps

\* a JSON string spelling an integer in decimal, as str() of an int does
IsDecimalString(x) ==
    /\ x.t = "str"
    /\ DOMAIN x = {"t", "s"}
    /\ int(x.s).ok
    /\ str(int(x.s).val) = x.s

HasKey(entry) == entry # JAbsent

\* C36: in the returned trace a step has the key arg exactly when its opcode
\* is PUSHI and the key output exactly when it is a PRINT step without
\* fault, no key has the value null, and every element of stack_before,
\* stack_after and meta.outputs and every output is a decimal string.
C36_StepShape ==
    (pc = "returned" /\ edit = None /\ ~forged) =>
        /\ \A k \in 1..Len(ReturnedTrace.steps) :
            LET tstep == ReturnedTrace.steps[k]
            IN  /\ HasKey(tstep.arg) <=> tstep.op = JStr(<<"PUSHI">>)
                /\ HasKey(tstep.output) <=>
                       (tstep.op = JStr(<<"PRINT">>) /\ ~HasKey(tstep.fault))
                /\ \A key \in DOMAIN tstep : tstep[key] # JNull
                /\ tstep.stack_before.t = "list" /\ tstep.stack_after.t = "list"
                /\ \A n \in 1..Len(tstep.stack_before.l) :
                       IsDecimalString(tstep.stack_before.l[n])
                /\ \A n \in 1..Len(tstep.stack_after.l) :
                       IsDecimalString(tstep.stack_after.l[n])
                /\ HasKey(tstep.output) => IsDecimalString(tstep.output)
        /\ ReturnedTrace.meta.outputs.t = "list"
        /\ \A n \in 1..Len(ReturnedTrace.meta.outputs.l) :
               IsDecimalString(ReturnedTrace.meta.outputs.l[n])
        /\ \A key \in DOMAIN ReturnedTrace.meta : ReturnedTrace.meta[key] # JNull

\* PUSHI -3, PRINT, PRINT: a step with arg, a PRINT step with the output
\* "-3" and a faulted PRINT step without output.
C36_Witness ==
    /\ pc = "returned" /\ edit = None /\ ~forged
    /\ Len(ReturnedTrace.steps) = 3
    /\ ReturnedTrace.steps[1].arg = JStr(<<"-", "3">>)
    /\ ReturnedTrace.steps[1].stack_after = JList(<<JStr(<<"-", "3">>)>>)
    /\ ReturnedTrace.steps[2].op = JStr(<<"PRINT">>)
    /\ ReturnedTrace.steps[2].output = JStr(<<"-", "3">>)
    /\ ReturnedTrace.steps[2].arg = JAbsent
    /\ ReturnedTrace.steps[3].op = JStr(<<"PRINT">>)
    /\ HasKey(ReturnedTrace.steps[3].fault)
    /\ ReturnedTrace.steps[3].output = JAbsent
    /\ ReturnedTrace.meta.outputs = JList(<<JStr(<<"-", "3">>)>>)

\* ------------------------------------------- claims on halted and faulted

HasNoHalt(prog) == \A k \in 1..Len(prog) : prog[k].op # "HALT"

LastExecutedIsHalt(tr) == tr.steps # <<>> /\ LastStep(tr).op = JStr(<<"HALT">>)

NoFaultOccurred(tr) == \A k \in 1..Len(tr.steps) : ~HasFault(tr.steps[k])

\* C37: in the returned trace halted and faulted are never both true, and
\* halted is true exactly when the last executed instruction was HALT or no
\* fault occurred and as many steps were emitted as the step limit allows.
\* So a program without HALT that ran past its last instruction with budget
\* left (the empty program too) is neither halted nor faulted, and with a
\* step limit equal to its length it is halted.
C37_HaltedAndFaulted ==
    (pc = "returned" /\ edit = None /\ ~forged) =>
        /\ ~(ReturnedTrace.meta.halted = JBool(TRUE) /\ ReturnedTrace.meta.faulted = JBool(TRUE))
        /\ ReturnedTrace.meta.halted \in {JBool(TRUE), JBool(FALSE)}
        /\ (ReturnedTrace.meta.halted = JBool(TRUE)) <=>
               \/ LastExecutedIsHalt(ReturnedTrace)
               \/ /\ NoFaultOccurred(ReturnedTrace)
                  /\ Len(ReturnedTrace.steps) = step_limit
        /\ (/\ HasNoHalt(program)
            /\ Len(ReturnedTrace.steps) = Len(program)
            /\ NoFaultOccurred(ReturnedTrace)) =>
               /\ ReturnedTrace.meta.faulted = JBool(FALSE)
               /\ Len(program) < step_limit => ReturnedTrace.meta.halted = JBool(FALSE)
               /\ Len(program) = step_limit => ReturnedTrace.meta.halted = JBool(TRUE)

\* A program of two instructions without HALT ran past its end with budget
\* left: neither halted nor faulted.
C37_Witness ==
    /\ pc = "returned" /\ edit = None /\ ~forged
    /\ HasNoHalt(program)
    /\ Len(program) = 2
    /\ step_limit = 3
    /\ Len(ReturnedTrace.steps) = 2
    /\ state.ip = 2
    /\ ReturnedTrace.meta.halted = JBool(FALSE)
    /\ ReturnedTrace.meta.faulted = JBool(FALSE)

\* ------------------------------------------- claims on the faulting step

BinaryOpcodes == {"ADD", "SUB", "MUL", "DIV"}

\* C38: a faulting step does not advance ip and appends nothing to the
\* outputs, and the operands popped before the fault are not restored: DIV
\* with a zero divisor leaves stack_before without its top two elements, a
\* binary opcode on one element leaves the empty stack, and only a fault on
\* an empty stack has stack_after equal to stack_before.
C38_FaultKeepsWhatWasPopped ==
    [][(Emitted /\ steps'[Len(steps')].fault # None) =>
        LET emitted == steps'[Len(steps')]
            n == Len(state.stack)
        IN  /\ state'.ip = state.ip
            /\ state'.outputs = state.outputs
            /\ emitted.output = None
            /\ emitted.stack_before = to_str_list(state.stack)
            /\ emitted.stack_after = to_str_list(state'.stack)
            /\ (emitted.op = "DIV" /\ n >= 2 /\ state.stack[n] = 0) =>
                   emitted.stack_after = SubSeq(emitted.stack_before, 1, n - 2)
            /\ (emitted.op \in BinaryOpcodes /\ n = 1) => emitted.stack_after = <<>>
            /\ emitted.stack_after = emitted.stack_before => n = 0]_vars

\* The reserved opcode faulted on a stack of one element and left it as it
\* was.
C38_Witness ==
    /\ pc = "returned" /\ edit = None /\ ~forged
    /\ Len(ReturnedTrace.steps) = 2
    /\ ReturnedTrace.steps[2].op = JStr(<<"RED_OP">>)
    /\ ReturnedTrace.steps[2].fault = JStr(<<"unknown opcode: ", "RED_OP">>)
    /\ ReturnedTrace.steps[2].stack_before = JList(<<JStr(<<"2">>)>>)
    /\ ReturnedTrace.steps[2].stack_after = ReturnedTrace.steps[2].stack_before
    /\ state.ip = 1

\* What holds of every faulting step: the clauses of C38, the last one for
\* the faults of stack underflow and division by zero.
PoppedOperandsAreLost ==
    [][(Emitted /\ steps'[Len(steps')].fault # None) =>
        LET emitted == steps'[Len(steps')]
            n == Len(state.stack)
        IN  /\ state'.ip = state.ip
            /\ state'.outputs = state.outputs
            /\ emitted.output = None
            /\ (emitted.op = "DIV" /\ n >= 2 /\ state.stack[n] = 0) =>
                   emitted.stack_after = SubSeq(emitted.stack_before, 1, n - 2)
            /\ (emitted.op \in BinaryOpcodes /\ n = 1) => emitted.stack_after = <<>>
            /\ (emitted.fault = Some(<<"stack underflow">>) /\ n = 0) =>
                   emitted.stack_after = emitted.stack_before
            /\ (emitted.stack_after = emitted.stack_before /\ n # 0) =>
                   emitted.op \in ReservedOpcodes \cup {"PUSHI"}]_vars

\* ------------------------------------- archives written by other producers
\* verify reads whatever archive is at the path. A producer other than pack
\* writes the four entries and a manifest that may be missing, may carry a
\* sha256 key, and may declare hashes or a final_root other than those of
\* the entries.

other_hash == calculate_sha256(Bytes("other"))

\* The manifest of the four input files with the declarations named in
\* wrong replaced, and the key sha256 as given.
declared_manifest(fsys, wrong, own_hash) ==
    LET sound == manifest_data(fsys, now_isoformat(1))
    IN  [sound EXCEPT
            !.program.sha256 = IF "program" \in wrong THEN other_hash ELSE @,
            !.trace.sha256 = IF "trace" \in wrong THEN other_hash ELSE @,
            !.trace.final_root = IF "final_root" \in wrong THEN JStr(<<"q">>) ELSE @,
            !.assets[1].sha256 = IF "image" \in wrong THEN other_hash ELSE @,
            !.assets[2].sha256 = IF "palette" \in wrong THEN other_hash ELSE @,
            !.sha256 = own_hash]

Declarations == {"program", "trace", "final_root", "image", "palette"}

InitArchive ==
    /\ NoExecution
    /\ DivIdle
    /\ earlier = None
    /\ pc = "bundle"
    /\ fs = [p \in Paths |->
                IF p = image_path THEN Some(Bytes("i"))
                ELSE IF p = palette_path THEN Some(Bytes("p"))
                ELSE IF p = program_path THEN Some(Bytes("[]"))
                ELSE IF p = trace_path THEN Some(JsonFile(JDict(JMeta(JStr(<<"r">>), JAbsent))))
                ELSE None]
    /\ calls = <<>>
    /\ entry_edit = None
    /\ CliIdle
    /\ DamageIdle
    /\ ColorIdle
    /\ CodecIdle

\* The other producer writes its archive.
WriteArchive ==
    /\ pc = "bundle"
    /\ calls = <<>>
    /\ \E output_bundle_path \in OutputPaths, wrong \in SUBSET Declarations,
          own_hash \in {None, Some(other_hash)}, with_manifest \in BOOLEAN :
           LET manifest_entry ==
                   IF with_manifest
                   THEN <<ZipEntry("manifest.json",
                                   JsonFile(declared_manifest(fs, wrong, own_hash)))>>
                   ELSE <<>>
               entries == manifest_entry
                          \o <<ZipEntry(arcname(image_path), fs[image_path][1]),
                               ZipEntry(arcname(palette_path), fs[palette_path][1]),
                               ZipEntry(arcname(program_path), fs[program_path][1]),
                               ZipEntry(arcname(trace_path), fs[trace_path][1])>>
           IN  /\ fs' = [fs EXCEPT ![output_bundle_path] = Some(Zip(entries))]
               /\ calls' = Append(calls, Call("write", output_bundle_path, Returned(wrong)))
    /\ UNCHANGED <<execVars, pc, trace, strict, verdict, editVars, divVars, earlier,
                   entry_edit, cliVars, damageVars, colorVars, codecVars>>

NextArchive == WriteArchive \/ BundleVerify

SpecArchive == InitArchive /\ [][NextArchive]_vars

\* ------------------------------------- claims on the order of verify

\* verify has just been called on the archive the other producer wrote.
VerifiedWritten ==
    /\ pc = "bundle_verified"
    /\ Len(calls) = 2
    /\ calls[1].op = "write"
    /\ calls[2].path = calls[1].path

WrittenArchive == fs[calls[1].path][1].entries

WrittenManifest == zf_read(WrittenArchive, "manifest.json")[1].doc

bundle_error(msg) == Raised("DVCBundleError", msg)

\* The first asset of the manifest whose entry does not have the declared
\* hash, 0 when there is none.
FirstBadAsset(zf, manifest) ==
    LET bad == {k \in 1..Len(manifest.assets) :
                   ~content_hash_matches(zf_read(zf, manifest.assets[k].path)[1],
                                         manifest.assets[k])}
    IN  IF bad = {} THEN 0 ELSE CHOOSE k \in bad : \A j \in bad : k <= j

\* What the documented order gives for an archive holding the four entries:
\* the manifest, its own hash, the content hashes of the program, the trace
\* and the assets, then final_root.
DocumentedOutcome(zf) ==
    IF zf_read(zf, "manifest.json") = None THEN
        bundle_error(<<"Bundle is missing manifest.json">>)
    ELSE LET manifest == zf_read(zf, "manifest.json")[1].doc
         IN  IF manifest.sha256 # None THEN
                 bundle_error(<<"Manifest SHA256 hash mismatch">>)
             ELSE IF ~content_hash_matches(zf_read(zf, manifest.program.path)[1],
                                           manifest.program) THEN
                 hash_mismatch(manifest.program.path)
             ELSE IF ~content_hash_matches(zf_read(zf, manifest.trace.path)[1],
                                           manifest.trace) THEN
                 hash_mismatch(manifest.trace.path)
             ELSE IF FirstBadAsset(zf, manifest) # 0 THEN
                 hash_mismatch(manifest.assets[FirstBadAsset(zf, manifest)].path)
             ELSE IF ~PyEq(meta_final_root_or(zf_read(zf, manifest.trace.path)[1].doc, JNull),
                           manifest.trace.final_root) THEN
                 bundle_error(<<"Trace final_root mismatch with manifest">>)
             ELSE Returned(valid_verdict)

\* C35: verify makes its checks in the documented order and raises on the
\* first failure: manifest.json present, the manifest's own hash when it
\* carries the key sha256, the content hash of the program, of the trace and
\* of every asset, and only then final_root. An archive with an asset hash
\* mismatch and a final_root mismatch is reported as a content-hash
\* mismatch.
C35_VerifyInDocumentedOrder ==
    VerifiedWritten => LastCall.outcome = DocumentedOutcome(WrittenArchive)

\* The manifest declares another hash for the image and another final_root,
\* and verify reports the final_root.
C35_Witness ==
    /\ VerifiedWritten
    /\ calls[1].outcome = Returned({"image", "final_root"})
    /\ zf_read(WrittenArchive, "manifest.json") # None
    /\ WrittenManifest.sha256 = None
    /\ FirstBadAsset(WrittenArchive, WrittenManifest) = 1
    /\ LastCall.outcome = bundle_error(<<"Trace final_root mismatch with manifest">>)

\* ------------------------------------- what the verifier does not read
\* The trace file, as execute wrote it or with one defect, is edited in a
\* value the hash chain does not cover, and the edited file is verified.

unhashed_meta_keys ==
    <<"halted", "faulted", "step_limit", "version", "started_at", "finished_at">>

\* The values an editor writes into such a key of meta; JAbsent is its
\* removal.
UnhashedValues(key) ==
    IF key \in {"halted", "faulted"} THEN
        {JBool(TRUE), JBool(FALSE), JAbsent, JNull, JStr(<<"yes">>)}
    ELSE IF key = "step_limit" THEN {JInt(0), JInt(1000000), JAbsent, JStr(<<"3">>)}
    ELSE IF key = "version" THEN {JStr(<<"dvc-trace-9.9">>), JAbsent, JInt(1)}
    ELSE {JStr(<<"2099-12-31T23:59:59Z">>), JAbsent, JNull}

\* the step with a key the verifier never reads
with_comment(tstep) ==
    [key \in DOMAIN tstep \cup {"comment"} |->
        IF key = "comment" THEN JStr(<<"tampered">>) ELSE tstep[key]]

\* One defect at most, put before the edit.
DamageOnce ==
    /\ defects = <<>>
    /\ edit = None
    /\ Damage

EditUnhashed ==
    /\ pc = "returned"
    /\ edit = None
    /\ \/ \E f \in 1..Len(unhashed_meta_keys) :
          \E value \in UnhashedValues(unhashed_meta_keys[f]) :
              /\ value # trace[1].meta[unhashed_meta_keys[f]]
              /\ trace' = Some([trace[1] EXCEPT !.meta[unhashed_meta_keys[f]] = value])
              /\ edit' = Some(Edit("unhashed", -1, unhashed_meta_keys[f]))
       \/ \E k \in 1..Len(trace[1].steps) :
              /\ trace' = Some([meta |-> trace[1].meta,
                                steps |-> [j \in 1..Len(trace[1].steps) |->
                                             IF j = k THEN with_comment(trace[1].steps[j])
                                             ELSE trace[1].steps[j]]])
              /\ edit' = Some(Edit("unhashed", k - 1, "comment"))
    /\ original' = trace
    /\ UNCHANGED <<execVars, pc, strict, verdict, forged>>
    /\ UNCHANGED sideVars

NextUnhashed == Dispatch \/ Return \/ DamageOnce \/ EditUnhashed \/ Verify

SpecUnhashed == InitEdited /\ [][NextUnhashed]_vars

\* The edited trace was verified.
VerifiedUnhashed == pc = "verified" /\ edit # None /\ edit[1].kind = "unhashed"

\* C39: two traces that differ only in meta.halted, meta.faulted,
\* meta.step_limit, meta.version, meta.started_at, meta.finished_at or in a
\* step key outside the hashed set get the same status from verify_trace
\* (and the same error): the edit is not detected.
C39_UnhashedValuesAreNotVerified ==
    VerifiedUnhashed =>
        /\ verdict[1].status = verify_trace(original[1], strict).status
        /\ verdict[1].error = verify_trace(original[1], strict).error
        /\ verdict[1].final_root = verify_trace(original[1], strict).final_root

\* The trace of a faulted execution, its meta.faulted set to false, is
\* accepted in strict mode.
C39_Witness ==
    /\ VerifiedUnhashed
    /\ defects = <<>>
    /\ strict
    /\ faulted
    /\ HasFault(LastStep(trace[1]))
    /\ original[1].meta.faulted = JBool(TRUE)
    /\ trace[1].meta.faulted = JBool(FALSE)
    /\ verdict[1].status = "valid"
    /\ ~verdict[1].faulted

\* --------------------------------------------------- dvc color-run
\* cmd_color_run loads the palette, compiles the image and writes a trace
\* file; dvc verify is then run on that file.

\* a palette file from_dict refuses
no_tile_palette ==
    PaletteData(JStr(<<"palette-v0.1">>), JInt(0), red_only, JAbsent)

InitColorRun ==
    /\ NoExecution
    /\ pc = "color_run"
    /\ DivIdle
    /\ earlier = None
    /\ BundleIdle
    /\ CliIdle
    /\ DamageIdle
    /\ palette_data \in {Some(data) : data \in CompilerPalettes \cup {no_tile_palette}}
    /\ palette = None
    /\ rgb = None
    /\ matched = None
    /\ image \in {Some(img) : img \in Images}
    /\ decoded_png = None
    /\ dvc_ir = None
    /\ CodecIdle

\* hashlib.sha256(json.dumps(palette.opcodes, sort_keys=True)).hexdigest()
palette_hash_of(pal) == JHex(calculate_sha256(pal.opcodes))

\* The trace cmd_color_run writes: the meta block of placeholders with the
\* provenance of the compilation, and no step.
color_run_trace(pal, ir) ==
    [meta |-> [version |-> JStr(<<"dvc-trace-0.1">>),
               step_limit |-> JAbsent,
               halted |-> JBool(TRUE),
               faulted |-> JBool(FALSE),
               outputs |-> JList(<<>>),
               final_root |-> JStr(<<"placeholder_hash">>),
               started_at |-> JAbsent,
               finished_at |-> JAbsent,
               color_provenance |->
                   JProvenance(palette_hash_of(pal),
                               JStr(<<ir.metadata.compiler>>),
                               pal.tile_size,
                               JGrid(JInt(ir.metadata.grid_size.width),
                                     JInt(ir.metadata.grid_size.height)),
                               JSummary(JInt(Len(ir.program)), JInt(Len(ir.program))))],
     steps |-> <<>>]

\* the summary cmd_color_run prints with --format json
color_run_summary(pal, ir) ==
    [status |-> "halted",
     steps |-> 0,
     outputs |-> <<>>,
     final_root |-> <<"placeholder_hash">>,
     tiles_processed |-> Len(ir.program)]

\* ColorLangError and its subclasses
ColorLangErrors == {"ColorLangError", "PaletteError", "ImageError", "CompilerError"}

\* the code of the except clause that catches exc
color_run_error_code(exc) == IF exc \in ColorLangErrors THEN 1 ELSE 2

\* The end of cmd_color_run: the trace file and the summary once the image
\* is compiled, the error and its code when the palette or the decoder
\* raised.
ColorRunFinish ==
    /\ pc = "color_run"
    /\ exit_code = None
    /\ palette # None
    /\ IF ~IsPalette THEN
           /\ stdout' = Some(error_printed(palette[1].raised))
           /\ exit_code' = Some(color_run_error_code(palette[1].raised))
           /\ UNCHANGED trace_file
       ELSE IF decoded_png # None /\ ~IsDecoded THEN
           /\ stdout' = Some(error_printed(decoded_png[1].raised))
           /\ exit_code' = Some(color_run_error_code(decoded_png[1].raised))
           /\ UNCHANGED trace_file
       ELSE /\ dvc_ir # None
            /\ trace_file' = Some(color_run_trace(ThePalette, dvc_ir[1]))
            /\ stdout' = Some(color_run_summary(ThePalette, dvc_ir[1]))
            /\ exit_code' = Some(0)
    /\ UNCHANGED <<execVars, pc, trace, strict, verdict, editVars, divVars, earlier,
                   bundleVars, program_file, damageVars, colorVars, codecVars>>

\* dvc verify on the trace file color-run wrote
VerifyTraceFile ==
    /\ pc = "color_run"
    /\ trace_file # None
    /\ \E strict_mode \in BOOLEAN :
           /\ strict' = strict_mode
           /\ verdict' = Some(verify_trace(trace_file[1], strict_mode))
    /\ pc' = "verified"
    /\ UNCHANGED <<execVars, trace, editVars, sideVars>>

NextColorRun == FromDict \/ DecodePng \/ Lower \/ ColorRunFinish \/ VerifyTraceFile

SpecColorRun == InitColorRun /\ [][NextColorRun]_vars

\* ------------------------------------------------- claims on color-run

\* C40: the trace file color-run writes is one the verifier accepts: its
\* meta.final_root is the step_hash of its last step, or 64 zeros when it
\* has no step.
C40_ColorRunTraceVerifies ==
    /\ trace_file # None =>
           trace_file[1].meta.final_root =
               IF trace_file[1].steps = <<>> THEN JHex(ZERO_HASH)
               ELSE LastStep(trace_file[1]).step_hash
    /\ (pc = "verified" /\ trace_file # None) => verdict[1].status = "valid"

\* color-run returned 0 for an image of one tile and dvc verify refused
\* the trace file it wrote.
C40_Witness ==
    /\ pc = "verified"
    /\ exit_code = Some(0)
    /\ trace_file # None
    /\ Len(dvc_ir[1].program) = 1
    /\ trace_file[1].steps = <<>>
    /\ trace_file[1].meta.final_root = JStr(<<"placeholder_hash">>)
    /\ verdict[1].status = "invalid"
    /\ verdict[1].error = Some(Failure(<<"final_root does not match last step hash">>, -1))

\* ------------------------------------------------ the canonical codec
\* json.dumps(obj, sort_keys=True, separators=(",", ":"), ensure_ascii=False)
\* encoded as UTF-8, and json.loads on those bytes. A str is the sequence of
\* its code points, a bytes object the sequence of its bytes, a dict the
\* sequence of its items in insertion order.

PyNone == [py |-> "None"]

PyBool(b) == [py |-> "bool", b |-> b]

PyInt(n) == [py |-> "int", n |-> n]

PyStr(s) == [py |-> "str", s |-> s]

PyList(items) == [py |-> "list", items |-> items]

PyDict(items) == [py |-> "dict", items |-> items]

\* the code points of the literals
Literal_null == <<110, 117, 108, 108>>

Literal_true == <<116, 114, 117, 101>>

Literal_false == <<102, 97, 108, 115, 101>>

\* format(n, "x") for one hexadecimal digit
hex_digit(n) == IF n < 10 THEN 48 + n ELSE 87 + n

\* ESCAPE_DCT of json.encoder: what only the quote and the backslash keep
\* of it
escape_quotes_only(c) ==
    IF c = 34 THEN <<92, 34>>
    ELSE IF c = 92 THEN <<92, 92>>
    ELSE <<c>>

\* ESCAPE_DCT of json.encoder with ensure_ascii=False: the quote, the
\* backslash and the control characters are escaped, every other code point
\* is kept
escape(c) ==
    IF c = 34 THEN <<92, 34>>
    ELSE IF c = 92 THEN <<92, 92>>
    ELSE IF c = 10 THEN <<92, 110>>
    ELSE IF c = 13 THEN <<92, 114>>
    ELSE IF c = 9 THEN <<92, 116>>
    ELSE IF c = 8 THEN <<92, 98>>
    ELSE IF c = 12 THEN <<92, 102>>
    ELSE IF c < 32 THEN <<92, 117, 48, 48, hex_digit(c \div 16), hex_digit(c % 16)>>
    ELSE <<c>>

RECURSIVE escaped(_)
escaped(s) == IF s = <<>> THEN <<>> ELSE escape(Head(s)) \o escaped(Tail(s))

\* py_encode_basestring
encode_basestring(s) == <<34>> \o escaped(s) \o <<34>>

RECURSIVE decimal_digits(_)
decimal_digits(n) ==
    IF n < 10 THEN <<48 + n>> ELSE Append(decimal_digits(n \div 10), 48 + (n % 10))

\* int.__repr__
int_repr(n) == IF n < 0 THEN <<45>> \o decimal_digits(0 - n) ELSE decimal_digits(n)

\* a < b for two str: by code point, a proper prefix first
RECURSIVE str_lt(_, _)
str_lt(a, b) ==
    IF b = <<>> THEN FALSE
    ELSE IF a = <<>> THEN TRUE
    ELSE IF Head(a) # Head(b) THEN Head(a) < Head(b)
    ELSE str_lt(Tail(a), Tail(b))

\* sorted(dct.items()): the keys of a dict are distinct, so the items are
\* ordered by their keys
sorted_items(items) == SortSeq(items, LAMBDA x, y : str_lt(x.key, y.key))

\* separator.join(parts)
RECURSIVE join(_, _)
join(separator, parts) ==
    IF parts = <<>> THEN <<>>
    ELSE IF Len(parts) = 1 THEN parts[1]
    ELSE parts[1] \o separator \o join(separator, Tail(parts))

item_separator == <<44>>

key_separator == <<58>>

\* json.dumps(o, sort_keys=True, separators=(",", ":"), ensure_ascii=False)
RECURSIVE json_dumps(_)
json_dumps(o) ==
    CASE o.py = "None" -> Literal_null
      [] o.py = "bool" -> IF o.b THEN Literal_true ELSE Literal_false
      [] o.py = "int" -> int_repr(o.n)
      [] o.py = "str" -> encode_basestring(o.s)
      [] o.py = "list" ->
            <<91>> \o join(item_separator,
                           [k \in 1..Len(o.items) |-> json_dumps(o.items[k])]) \o <<93>>
      [] o.py = "dict" ->
            LET its == sorted_items(o.items)
            IN <<123>> \o join(item_separator,
                               [k \in 1..Len(its) |->
                                    encode_basestring(its[k].key) \o key_separator
                                        \o json_dumps(its[k].value)]) \o <<125>>

\* chr(c).encode("utf-8"), c below 0x10000 and no surrogate
utf8_of(c) ==
    IF c < 128 THEN <<c>>
    ELSE IF c < 2048 THEN <<192 + (c \div 64), 128 + (c % 64)>>
    ELSE <<224 + (c \div 4096), 128 + ((c \div 64) % 64), 128 + (c % 64)>>

\* str.encode("utf-8")
RECURSIVE utf8_encode(_)
utf8_encode(text) ==
    IF text = <<>> THEN <<>> ELSE utf8_of(Head(text)) \o utf8_encode(Tail(text))

\* the canonical encoding of hash_chain.canonical_json_bytes, byte by byte
canonical_json_encoding(o) == utf8_encode(json_dumps(o))

\* the content of the file trace_serializer.write_canonical_json writes
write_canonical_json(o) == utf8_encode(json_dumps(o) \o <<10>>)

\* bytes.decode("utf-8") from the k-th byte on, acc the code points decoded
\* so far
RECURSIVE utf8_decode_from(_, _, _)
utf8_decode_from(bytes, k, acc) ==
    IF k > Len(bytes) THEN Returned(acc)
    ELSE LET b == bytes[k]
             continues(j) == j <= Len(bytes) /\ bytes[j] >= 128 /\ bytes[j] < 192
         IN IF b < 128 THEN utf8_decode_from(bytes, k + 1, Append(acc, b))
            ELSE IF b >= 194 /\ b < 224 /\ continues(k + 1) THEN
                utf8_decode_from(bytes, k + 2,
                                 Append(acc, (b - 192) * 64 + (bytes[k + 1] - 128)))
            ELSE IF b >= 224 /\ b < 240 /\ continues(k + 1) /\ continues(k + 2)
                    /\ (b - 224) * 4096 + (bytes[k + 1] - 128) * 64 >= 2048 THEN
                utf8_decode_from(bytes, k + 3,
                                 Append(acc, (b - 224) * 4096 + (bytes[k + 1] - 128) * 64
                                                 + (bytes[k + 2] - 128)))
            ELSE Raised("UnicodeDecodeError", <<"invalid utf-8">>)

utf8_decode(bytes) == utf8_decode_from(bytes, 1, <<>>)

\* what open(path, "r") does to the line ends of the text it reads
RECURSIVE universal_newlines(_)
universal_newlines(text) ==
    IF text = <<>> THEN <<>>
    ELSE IF Head(text) = 13 THEN
        <<10>> \o universal_newlines(IF Len(text) >= 2 /\ text[2] = 10
                                     THEN Tail(Tail(text)) ELSE Tail(text))
    ELSE <<Head(text)>> \o universal_newlines(Tail(text))

\* WHITESPACE of json.decoder
WHITESPACE == {32, 9, 10, 13}

\* what a scanner returns: the value and the index after it, or no match
Scanned(value, end) == [value |-> value, end |-> end]

NoMatch == [nomatch |-> TRUE]

IsScanned(r) == "value" \in DOMAIN r

\* _w(s, end).end(): the index after the white space at idx
RECURSIVE skip(_, _, _)
skip(text, idx, ws) ==
    IF idx <= Len(text) /\ text[idx] \in ws THEN skip(text, idx + 1, ws) ELSE idx

\* text[idx:idx+len(word)] == word
starts_with(text, idx, word) ==
    /\ idx + Len(word) - 1 <= Len(text)
    /\ \A k \in 1..Len(word) : text[idx + k - 1] = word[k]

\* BACKSLASH of json.decoder: the character an escape stands for
BACKSLASH ==
    (34 :> 34) @@ (92 :> 92) @@ (47 :> 47) @@ (98 :> 8) @@ (102 :> 12)
        @@ (110 :> 10) @@ (114 :> 13) @@ (116 :> 9)

hex_digit_value(c) ==
    IF c >= 48 /\ c <= 57 THEN c - 48
    ELSE IF c >= 97 /\ c <= 102 THEN c - 87
    ELSE IF c >= 65 /\ c <= 70 THEN c - 55
    ELSE -1

\* py_scanstring in strict mode, idx after the opening quote; the model has
\* no surrogate, so no pair of \u escapes is joined
RECURSIVE scanstring(_, _, _)
scanstring(text, idx, acc) ==
    IF idx > Len(text) THEN NoMatch
    ELSE LET c == text[idx]
         IN IF c = 34 THEN Scanned(acc, idx + 1)
            ELSE IF c < 32 THEN NoMatch
            ELSE IF c # 92 THEN scanstring(text, idx + 1, Append(acc, c))
            ELSE IF idx + 1 > Len(text) THEN NoMatch
            ELSE IF text[idx + 1] = 117 THEN
                IF idx + 5 <= Len(text)
                   /\ \A k \in 2..5 : hex_digit_value(text[idx + k]) >= 0
                THEN scanstring(text, idx + 6,
                                Append(acc, hex_digit_value(text[idx + 2]) * 4096
                                                + hex_digit_value(text[idx + 3]) * 256
                                                + hex_digit_value(text[idx + 4]) * 16
                                                + hex_digit_value(text[idx + 5])))
                ELSE NoMatch
            ELSE IF text[idx + 1] \in DOMAIN BACKSLASH THEN
                scanstring(text, idx + 2, Append(acc, BACKSLASH[text[idx + 1]]))
            ELSE NoMatch

is_digit(c) == c >= 48 /\ c <= 57

\* the index after the run of digits at idx
RECURSIVE digits_end(_, _)
digits_end(text, idx) ==
    IF idx <= Len(text) /\ is_digit(text[idx]) THEN digits_end(text, idx + 1) ELSE idx

\* int(text[from:to]) for a run of digits
RECURSIVE int_of_digits(_, _, _, _)
int_of_digits(text, from, to, acc) ==
    IF from >= to THEN acc
    ELSE int_of_digits(text, from + 1, to, acc * 10 + (text[from] - 48))

\* NUMBER_RE of json.scanner on an integer: -?(0|[1-9]\d*); a fraction or an
\* exponent makes a float, which no document of the model holds
match_number(text, idx) ==
    LET negative == idx <= Len(text) /\ text[idx] = 45
        first == IF negative THEN idx + 1 ELSE idx
        end == IF first <= Len(text) /\ text[first] = 48 THEN first + 1
               ELSE digits_end(text, first)
    IN IF end = first THEN NoMatch
       ELSE IF end <= Len(text) /\ text[end] \in {46, 101, 69} THEN NoMatch
       ELSE Scanned(PyInt(IF negative THEN 0 - int_of_digits(text, first, end, 0)
                          ELSE int_of_digits(text, first, end, 0)), end)

\* dict(pairs): a key set again keeps its place and takes the later value
RECURSIVE dict_of_pairs(_, _)
dict_of_pairs(pairs, acc) ==
    IF pairs = <<>> THEN acc
    ELSE LET pair == Head(pairs)
             known == {k \in 1..Len(acc) : acc[k].key = pair.key}
         IN dict_of_pairs(Tail(pairs),
                          IF known = {} THEN Append(acc, pair)
                          ELSE [k \in 1..Len(acc) |->
                                    IF k \in known THEN pair ELSE acc[k]])

\* py_make_scanner's _scan_once with JSONObject and JSONArray, ws the white
\* space the decoder skips
RECURSIVE scan_once(_, _, _)
RECURSIVE object_pairs(_, _, _, _)
RECURSIVE array_values(_, _, _, _)

\* JSONObject's loop, idx after the opening quote of a key
object_pairs(text, idx, ws, pairs) ==
    LET key == scanstring(text, idx, <<>>)
    IN IF ~IsScanned(key) THEN NoMatch
       ELSE LET colon == skip(text, key.end, ws)
            IN IF ~(colon <= Len(text) /\ text[colon] = 58) THEN NoMatch
               ELSE LET scanned == scan_once(text, skip(text, colon + 1, ws), ws)
                    IN IF ~IsScanned(scanned) THEN NoMatch
                       ELSE LET after == skip(text, scanned.end, ws)
                                found == Append(pairs, Item(key.value, scanned.value))
                            IN IF after > Len(text) THEN NoMatch
                               ELSE IF text[after] = 125 THEN
                                   Scanned(PyDict(dict_of_pairs(found, <<>>)), after + 1)
                               ELSE IF text[after] # 44 THEN NoMatch
                               ELSE LET quote == skip(text, after + 1, ws)
                                    IN IF quote <= Len(text) /\ text[quote] = 34
                                       THEN object_pairs(text, quote + 1, ws, found)
                                       ELSE NoMatch

\* JSONArray's loop, idx at a value
array_values(text, idx, ws, values) ==
    LET scanned == scan_once(text, idx, ws)
    IN IF ~IsScanned(scanned) THEN NoMatch
       ELSE LET after == skip(text, scanned.end, ws)
                found == Append(values, scanned.value)
            IN IF after > Len(text) THEN NoMatch
               ELSE IF text[after] = 93 THEN Scanned(PyList(found), after + 1)
               ELSE IF text[after] # 44 THEN NoMatch
               ELSE array_values(text, skip(text, after + 1, ws), ws, found)

scan_once(text, idx, ws) ==
    IF idx > Len(text) THEN NoMatch
    ELSE LET nextchar == text[idx]
         IN IF nextchar = 34 THEN
                LET s == scanstring(text, idx + 1, <<>>)
                IN IF IsScanned(s) THEN Scanned(PyStr(s.value), s.end) ELSE NoMatch
            ELSE IF nextchar = 123 THEN
                LET first == skip(text, idx + 1, ws)
                IN IF first > Len(text) THEN NoMatch
                   ELSE IF text[first] = 125 THEN Scanned(PyDict(<<>>), first + 1)
                   ELSE IF text[first] = 34 THEN object_pairs(text, first + 1, ws, <<>>)
                   ELSE NoMatch
            ELSE IF nextchar = 91 THEN
                LET first == skip(text, idx + 1, ws)
                IN IF first <= Len(text) /\ text[first] = 93
                   THEN Scanned(PyList(<<>>), first + 1)
                   ELSE array_values(text, first, ws, <<>>)
            ELSE IF starts_with(text, idx, Literal_null) THEN Scanned(PyNone, idx + 4)
            ELSE IF starts_with(text, idx, Literal_true) THEN
                Scanned(PyBool(TRUE), idx + 4)
            ELSE IF starts_with(text, idx, Literal_false) THEN
                Scanned(PyBool(FALSE), idx + 5)
            ELSE match_number(text, idx)

\* JSONDecoder.decode: one value, white space around it, nothing else
json_decode(text, ws) ==
    LET scanned == scan_once(text, skip(text, 1, ws), ws)
    IN IF ~IsScanned(scanned) THEN
           Raised("JSONDecodeError", <<"Expecting value">>)
       ELSE IF skip(text, scanned.end, ws) # Len(text) + 1 THEN
           Raised("JSONDecodeError", <<"Extra data">>)
       ELSE Returned(scanned.value)

\* json.loads(bytes)
json_loads(bytes) ==
    LET text == utf8_decode(bytes)
    IN IF "raised" \in DOMAIN text THEN text ELSE json_decode(text.returned, WHITESPACE)

\* trace_serializer.read_json on a file of that content
read_json(bytes) ==
    LET text == utf8_decode(bytes)
    IN IF "raised" \in DOMAIN text THEN text
       ELSE json_decode(universal_newlines(text.returned), WHITESPACE)

\* ------------------------------------- documents through the codec
\* A document is encoded, the bytes are decoded, and what was decoded is
\* encoded again by the same writer.

MaxStrLen == 1

MaxItems == 2

\* a letter, the quote, the backslash, a line feed, a space and two code
\* points above 127
CodePoints == {97, 34, 92, 10, 32, 233, 8364}

Strs == SeqsUpTo(CodePoints, MaxStrLen)

Leaves ==
    {PyNone, PyBool(TRUE), PyBool(FALSE), PyInt(0), PyInt(0 - 12), PyInt(305)}
        \cup {PyStr(s) : s \in Strs}

\* "B" < "a" < "aa" by code point
DocKeys == {<<97>>, <<66>>, <<97, 97>>}

\* the lists of up to MaxItems values
ListsOf(values) == {PyList(items) : items \in SeqsUpTo(values, MaxItems)}

\* the dicts of up to MaxItems items, in every order of insertion
DictsOf(values) ==
    {PyDict(items) : items \in
        {its \in SeqsUpTo({Item(k, v) : k \in DocKeys, v \in values}, MaxItems) :
            \A j, k \in 1..Len(its) : j # k => its[j].key # its[k].key}}

Entries == DictsOf({PyStr(<<97>>), PyInt(1)})

\* a program as the loader reads it: a list of dicts
ProgramDocuments == {PyList(<<e1, e2>>) : e1, e2 \in Entries}

\* a trace as execute returns it: a dict of the dict "m" and the list "s",
\* inserted out of order
TraceDocuments ==
    {PyDict(<<Item(<<115>>, PyList(<<e1>>)), Item(<<109>>, e2)>>) : e1, e2 \in Entries}

\* the values the longer lists and dicts are made of
Sample ==
    {PyNone, PyBool(TRUE), PyInt(0 - 12), PyStr(<<34>>), PyStr(<<233>>), PyStr(<<10>>)}

\* every leaf alone, in a list and in a dict, and every str as a key
Wrapped ==
    {PyList(<<v>>) : v \in Leaves} \cup {PyDict(<<Item(<<97>>, v)>>) : v \in Leaves}
        \cup {PyDict(<<Item(s, PyNone)>>) : s \in Strs}

Documents == Leaves \cup Wrapped \cup ListsOf(Sample) \cup DictsOf(Sample)
                 \cup ProgramDocuments \cup TraceDocuments

Writers == {"canonical_json_bytes", "write_canonical_json"}

InitCodec ==
    /\ NoExecution
    /\ pc = "codec"
    /\ DivIdle
    /\ earlier = None
    /\ BundleIdle
    /\ CliIdle
    /\ DamageIdle
    /\ ColorIdle
    /\ codec_obj \in {Some(o) : o \in Documents}
    /\ encoded = None
    /\ reloaded = None
    /\ reencoded = None

\* what the writer makes of o
written(writer, o) ==
    IF writer = "write_canonical_json" THEN write_canonical_json(o)
    ELSE canonical_json_encoding(o)

\* canonical_json_bytes(obj), or write_canonical_json(path, obj)
Encode ==
    /\ pc = "codec"
    /\ encoded = None
    /\ \E writer \in Writers :
           encoded' = Some([writer |-> writer, content |-> written(writer, codec_obj[1])])
    /\ UNCHANGED <<execVars, pc, trace, strict, verdict, editVars, divVars, earlier,
                   bundleVars, cliVars, damageVars, colorVars, codec_obj, reloaded,
                   reencoded>>

\* json.loads on the bytes, read_json on the file
Decode ==
    /\ pc = "codec"
    /\ encoded # None
    /\ reloaded = None
    /\ reloaded' = Some(IF encoded[1].writer = "write_canonical_json"
                        THEN read_json(encoded[1].content)
                        ELSE json_loads(encoded[1].content))
    /\ UNCHANGED <<execVars, pc, trace, strict, verdict, editVars, divVars, earlier,
                   bundleVars, cliVars, damageVars, colorVars, codec_obj, encoded,
                   reencoded>>

\* the same writer on what was decoded
Reencode ==
    /\ pc = "codec"
    /\ reloaded # None
    /\ "returned" \in DOMAIN reloaded[1]
    /\ reencoded = None
    /\ reencoded' = Some(written(encoded[1].writer, reloaded[1].returned))
    /\ UNCHANGED <<execVars, pc, trace, strict, verdict, editVars, divVars, earlier,
                   bundleVars, cliVars, damageVars, colorVars, codec_obj, encoded,
                   reloaded>>

NextCodec == Encode \/ Decode \/ Reencode

SpecCodec == InitCodec /\ [][NextCodec]_vars

\* ------------------------------------------- claims on canonical JSON

\* the keys of every dict of o are in ascending order
RECURSIVE KeysAscend(_)
KeysAscend(o) ==
    IF o.py = "list" THEN \A k \in 1..Len(o.items) : KeysAscend(o.items[k])
    ELSE IF o.py = "dict" THEN
        /\ \A k \in 1..Len(o.items) - 1 : str_lt(o.items[k].key, o.items[k + 1].key)
        /\ \A k \in 1..Len(o.items) : KeysAscend(o.items[k].value)
    ELSE TRUE

\* the JSON text of the encoding, without the line end the file writer adds
EncodedText ==
    LET text == utf8_decode(encoded[1].content).returned
    IN IF encoded[1].writer = "write_canonical_json"
       THEN SubSeq(text, 1, Len(text) - 1) ELSE text

====
